---------------------------- MODULE Spec2Model ----------------------------
(***************************************************************************)
(* Model of the code-comparison engine of Robsukas/code-comparison:        *)
(*   backend/lib/strict_comparison.py      (StrictComparator)              *)
(*   backend/lib/structural_comparison.py  (StructuralComparator)          *)
(*   backend/lib/utils.py                  (Utils)                         *)
(*   backend/routes/diff.py                (diff_endpoint)                 *)
(*   backend/lib/ai_client.py              (AIClient)                      *)
(*   script/AST_parser.py, AST_normalizer.py, AST_comparator.py, main.py   *)
(* Source texts are represented by descriptors (a form, a variable name    *)
(* and a list of statements); parse gives the tree Python's ast.parse      *)
(* returns for the text and source_lines the text's lines.                 *)
(***************************************************************************)
EXTENDS Integers, Sequences, FiniteSets, TLC

VARIABLES
    pc,          \* position of the caller: which call has been made
    teacher,     \* the teacher's input of the pending call
    student,     \* the student's input of the pending call
    diffs,       \* StrictComparator.compare: the _DiffEntry list of the walk
    strict,      \* StrictComparator.compare: the returned lines
    diffs_sw,    \* the same two for the call with the arguments swapped
    strict_sw,
    unified,     \* StructuralComparator: the lines of the unified DSL
    unified_sw,  \* the same for the call with the arguments swapped
    result,      \* Utils.compare: the returned dictionary
    log,         \* the calls of Utils.compare made so far: inputs and result
    filename_mapping, \* Utils.compare_files: student file name -> teacher file name
    raised,      \* Utils.compare_files: the exception that left the call, or None
    response,    \* diff_endpoint: the status and the body of the response
    attempt,     \* AIClient.generate_conclusion: the call in progress
    pool,        \* ai_client._POOL: workers held by calls that were given up
    normalized,  \* script/main.py: what normalize_ast_dict returned for each tree
    ast_differences  \* script/main.py: what compare_ast_dicts returned

filesVars == <<filename_mapping, raised, response>>
aiVars == <<attempt, pool>>
scriptVars == <<normalized, ast_differences>>
vars == <<pc, teacher, student, diffs, strict, diffs_sw, strict_sw,
          unified, unified_sw, result, log, filesVars, aiVars, scriptVars>>

-----------------------------------------------------------------------------
(* Bounds of the model *)

\* longest statement list of an input (bodies of the list family)
MaxStmts == 3

-----------------------------------------------------------------------------
(* Python values held by scalar fields of ast nodes *)

PyInt(n)  == [ty |-> "int",  n |-> n, s |-> ""]
PyBool(b) == [ty |-> "bool", n |-> IF b THEN 1 ELSE 0, s |-> ""]
PyStr(s)  == [ty |-> "str",  n |-> 0, s |-> s]
PyNone    == [ty |-> "None", n |-> 0, s |-> ""]

\* Python's ==: bool is a subclass of int (True == 1), str and None only
\* equal their own kind
PyEq(a, b) ==
    IF a.ty \in {"int", "bool"} /\ b.ty \in {"int", "bool"} THEN a.n = b.n
    ELSE a.ty = b.ty /\ a.n = b.n /\ a.s = b.s

\* repr(value)
PyRepr(a) ==
    CASE a.ty = "int"  -> ToString(a.n)
      [] a.ty = "bool" -> (IF a.n = 1 THEN "True" ELSE "False")
      [] a.ty = "str"  -> "'" \o a.s \o "'"
      [] OTHER         -> "None"

\* str(value), as formatted by an f-string
PyStrOf(a) == IF a.ty = "str" THEN a.s ELSE PyRepr(a)

\* no call of Utils.compare_files and no request yet; no conclusion asked for
NoFiles == filename_mapping = <<>> /\ raised = PyNone /\ response = <<>>
NoConclusion ==
    /\ attempt = [pc |-> "idle", n |-> 0, running |-> FALSE, waited |-> 0,
                  gemini |-> "none", openai |-> "none", ret |-> <<>>]
    /\ pool = 0
\* script/main.py has not run
NoNormalization == normalized = <<>> /\ ast_differences = {}

-----------------------------------------------------------------------------
(* ast nodes.  A node carries its class name, lineno/end_lineno (0: the    *)
(* class has no such attribute) and the values of its _fields in order.    *)
(* A field value is a list, a node, or a scalar (None included).           *)

FList(items) == [k |-> "list", v |-> items]
FNode(node)  == [k |-> "node", v |-> node]
FVal(val)    == [k |-> "val",  v |-> val]
FNone        == FVal(PyNone)

AstNode(type, ln, f) == [type |-> type, lineno |-> ln, end_lineno |-> ln, f |-> f]
AstSpan(type, ln, end, f) == [type |-> type, lineno |-> ln, end_lineno |-> end, f |-> f]

\* node._fields of the classes used
Fields(type) ==
    CASE type = "Module"      -> <<"body", "type_ignores">>
      [] type = "FunctionDef" -> <<"name", "args", "body", "decorator_list",
                                   "returns", "type_comment">>
      [] type = "arguments"   -> <<"posonlyargs", "args", "vararg", "kwonlyargs",
                                   "kw_defaults", "kwarg", "defaults">>
      [] type = "arg"         -> <<"arg", "annotation", "type_comment">>
      [] type = "Return"      -> <<"value">>
      [] type = "If"          -> <<"test", "body", "orelse">>
      [] type = "Expr"        -> <<"value">>
      [] type = "Assign"      -> <<"targets", "value", "type_comment">>
      [] type = "Compare"     -> <<"left", "ops", "comparators">>
      [] type = "Call"        -> <<"func", "args", "keywords">>
      [] type = "Name"        -> <<"id", "ctx">>
      [] type = "Attribute"   -> <<"value", "attr", "ctx">>
      [] type = "Constant"    -> <<"value", "kind">>
      [] type = "Dict"        -> <<"keys", "values">>
      [] OTHER                -> <<>>   \* Pass, Load, Store, Eq, NotEq, Lt, Gt

\* getattr(node, field, None)
GetField(node, field) ==
    LET idx == {i \in 1..Len(Fields(node.type)) : Fields(node.type)[i] = field}
    IN  IF idx = {} THEN FNone ELSE node.f[CHOOSE i \in idx : TRUE]

-----------------------------------------------------------------------------
(* Source texts.  A statement descriptor stands for one line of text:      *)
(*   k = "if"    if <v> <op> <c>: pass     (ops of length 1)               *)
(*               if <v> <op1> <v> <op2> <c>: pass   (ops of length 2)      *)
(*   k = "ret"   return <v>                                                *)
(*   k = "call"  <fn>(<v>)                                                 *)
(*   k = "callp" <v>(<c>)                                                  *)
(*   k = "dict"  d = {**<v>}                                               *)
(* A unit descriptor stands for a whole text:                              *)
(*   form = "block"  the statements, one per line                          *)
(*   form = "defN"   def <fname>(<p>):  followed by the statements         *)
(*   form = "def1"   def <fname>(<p>): <statement>   on one line           *)
(*   form = "bad"    a text that is not valid Python                       *)

Stmt(k, v, ops, c, fn) == [k |-> k, v |-> v, ops |-> ops, c |-> c, fn |-> fn]

StIf(v, op, c)      == Stmt("if", v, <<op>>, c, "")
StIf2(v, op1, op2)  == Stmt("if", v, <<op1, op2>>, PyInt(0), "")
StRet(v)            == Stmt("ret", v, <<>>, PyNone, "")
StCall(fn, v)       == Stmt("call", v, <<>>, PyNone, fn)
StCallP(v)          == Stmt("callp", v, <<>>, PyInt(0), "")
StDict(v)           == Stmt("dict", v, <<>>, PyNone, "")

Unit(form, fname, p, body) == [form |-> form, fname |-> fname, p |-> p, body |-> body]

OpSym(op) ==
    CASE op = "Eq" -> "==" [] op = "NotEq" -> "!=" [] op = "Lt" -> "<" [] OTHER -> ">"

\* the text of one statement
StmtText(st) ==
    CASE st.k = "if" ->
            IF Len(st.ops) = 1
            THEN "if " \o st.v \o " " \o OpSym(st.ops[1]) \o " " \o PyRepr(st.c) \o ": pass"
            ELSE "if " \o st.v \o " " \o OpSym(st.ops[1]) \o " " \o st.v \o " "
                       \o OpSym(st.ops[2]) \o " " \o PyRepr(st.c) \o ": pass"
      [] st.k = "ret"   -> "return " \o st.v
      [] st.k = "call"  -> st.fn \o "(" \o st.v \o ")"
      [] st.k = "callp" -> st.v \o "(" \o PyRepr(st.c) \o ")"
      [] OTHER          -> "d = {**" \o st.v \o "}"

\* one line of text: its leading blanks and the rest
TextLine(ind, t) == [ind |-> ind, t |-> t]

\* src.splitlines(): the lines of the text a unit descriptor stands for
source_lines(u) ==
    CASE u.form = "block" -> [i \in 1..Len(u.body) |-> TextLine(0, StmtText(u.body[i]))]
      [] u.form = "defN"  -> <<TextLine(0, "def " \o u.fname \o "(" \o u.p \o "):")>>
                             \o [i \in 1..Len(u.body) |-> TextLine(4, StmtText(u.body[i]))]
      [] u.form = "def1"  -> <<TextLine(0, "def " \o u.fname \o "(" \o u.p \o "): "
                                             \o StmtText(u.body[1]))>>
      [] OTHER            -> <<TextLine(0, "x = (")>>

-----------------------------------------------------------------------------
(* ast.parse: the tree of a text, with the line numbers Python gives       *)

Name(id, ctx, ln) == AstNode("Name", ln, <<FVal(PyStr(id)), FNode(AstNode(ctx, 0, <<>>))>>)
Constant(val, ln) == AstNode("Constant", ln, <<FVal(val), FNone>>)

ParseStmt(st, ln) ==
    CASE st.k = "if" ->
            AstNode("If", ln, <<
                FNode(AstNode("Compare", ln, <<
                    FNode(Name(st.v, "Load", ln)),
                    FList([i \in 1..Len(st.ops) |-> FNode(AstNode(st.ops[i], 0, <<>>))]),
                    FList(IF Len(st.ops) = 1
                          THEN <<FNode(Constant(st.c, ln))>>
                          ELSE <<FNode(Name(st.v, "Load", ln)), FNode(Constant(st.c, ln))>>)
                >>)),
                FList(<<FNode(AstNode("Pass", ln, <<>>))>>),
                FList(<<>>) >>)
      [] st.k = "ret" ->
            AstNode("Return", ln, <<FNode(Name(st.v, "Load", ln))>>)
      [] st.k = "call" ->
            AstNode("Expr", ln, <<FNode(AstNode("Call", ln, <<
                FNode(Name(st.fn, "Load", ln)),
                FList(<<FNode(Name(st.v, "Load", ln))>>),
                FList(<<>>) >>))>>)
      [] st.k = "callp" ->
            AstNode("Expr", ln, <<FNode(AstNode("Call", ln, <<
                FNode(Name(st.v, "Load", ln)),
                FList(<<FNode(Constant(st.c, ln))>>),
                FList(<<>>) >>))>>)
      [] OTHER ->   \* d = {**v}: the key of a ** entry of a dict display is None
            AstNode("Assign", ln, <<
                FList(<<FNode(Name("d", "Store", ln))>>),
                FNode(AstNode("Dict", ln, <<
                    FList(<<FNone>>),
                    FList(<<FNode(Name(st.v, "Load", ln))>>) >>)),
                FNone >>)

\* a definition; one_line: the body is on the line of the def
ParseDef(u, one_line, end) ==
    AstSpan("FunctionDef", 1, end, <<
        FVal(PyStr(u.fname)),
        FNode(AstNode("arguments", 0, <<
            FList(<<>>),
            FList(<<FNode(AstNode("arg", 1, <<FVal(PyStr(u.p)), FNone, FNone>>))>>),
            FNone, FList(<<>>), FList(<<>>), FNone, FList(<<>>) >>)),
        FList([i \in 1..Len(u.body) |-> FNode(ParseStmt(u.body[i], IF one_line THEN 1 ELSE i + 1))]),
        FList(<<>>), FNone, FNone >>)

\* whether ast.parse raises SyntaxError on the text
SyntaxError(u) == u.form = "bad"

\* str(exc) of that SyntaxError
SyntaxErrorText(u) == "'(' was never closed (<unknown>, line 1)"

parse(u) ==
    LET body == CASE u.form = "block" ->
                        [i \in 1..Len(u.body) |-> FNode(ParseStmt(u.body[i], i))]
                  [] u.form = "defN" ->
                        <<FNode(ParseDef(u, FALSE, Len(u.body) + 1))>>
                  [] OTHER ->
                        <<FNode(ParseDef(u, TRUE, 1))>>
    IN  AstNode("Module", 0, <<FList(body), FList(<<>>)>>)

-----------------------------------------------------------------------------
(* backend/lib/strict_comparison.py *)

\* width of the location column of a rendered line
COL_WIDTH == 12

DiffEntry(category, location, t, s, message, severity) ==
    [category |-> category, location |-> location, teacher |-> t, student |-> s,
     message |-> message, severity |-> severity]

ICON(severity) ==
    CASE severity = "info" -> "(i)" [] severity = "warning" -> "(!)" [] OTHER -> "(x)"

RECURSIVE Blanks(_)
Blanks(n) == IF n <= 0 THEN "" ELSE " " \o Blanks(n - 1)

Max(a, b) == IF a >= b THEN a ELSE b
Min(a, b) == IF a <= b THEN a ELSE b

\* _DiffEntry.to_line
to_line(d) ==
    LET icon    == ICON(d.severity)
        loc_raw == "<" \o d.location \o ">"
        pad_len == Max(0, COL_WIDTH - Len(loc_raw))
    IN  icon \o Blanks(2) \o loc_raw \o Blanks(pad_len) \o Blanks(2) \o d.message

\* a line number as text; 0 stands for the text "?"
LineStr(n) == IF n = 0 THEN "?" ELSE ToString(n)

IsNone(x)    == x.k = "val" /\ x.v.ty = "None"
IsAST(x)     == x.k = "node"
IsList(x)    == x.k = "list"

\* StrictComparator._lineno of a list element or node field x (0: "?")
lineno(x, fallback) ==
    IF IsAST(x) /\ x.v.lineno # 0 THEN x.v.lineno ELSE fallback

\* "\n".join(lines[lo:hi]).strip(): the blanks before the first line go
Strip(lines) ==
    IF lines = <<>> THEN <<>>
    ELSE <<TextLine(0, lines[1].t)>> \o SubSeq(lines, 2, Len(lines))

\* StrictComparator._snippet of a list element or node field x
snippet(src, x) ==
    IF IsAST(x) /\ x.v.lineno # 0
    THEN LET lo == Max(x.v.lineno - 1, 0)
             hi == Min(x.v.end_lineno, Len(src))
         IN  Strip(SubSeq(src, lo + 1, hi))
    ELSE IF IsAST(x) THEN <<>>                  \* ast.unparse of an operator or context: ""
    ELSE <<TextLine(0, PyStrOf(x.v))>>          \* unparse raises: str(node), "None" for None

\* ca != cb for two field values
FieldNe(ca, cb) ==
    IF ca.k = "val" /\ cb.k = "val" THEN ~PyEq(ca.v, cb.v) ELSE TRUE

\* field in ("id", "arg", "attr")
IsIdentifierField(field) == field \in {"id", "arg", "attr"}

\* zip_longest(ca, cb, fillvalue=None)[i]
ZipItem(c, i) == IF i <= Len(c) THEN c[i] ELSE FNone

\* the entry of lines 218-231, for the pair (xa, xb) one of which is None
MissingEntry(xa, xb, a_src, b_src, my_line) ==
    LET missing == IF IsNone(xa) THEN "teacher" ELSE "student"
        node    == IF IsNone(xa) THEN xb ELSE xa
    IN  DiffEntry("MissingNode",
                  "line " \o LineStr(lineno(node, my_line)),
                  IF missing = "student" THEN snippet(a_src, node) ELSE <<>>,
                  IF missing = "teacher" THEN snippet(b_src, node) ELSE <<>>,
                  "Statement present only in " \o missing \o " code",
                  "error")

\* a differ without the operator check of lines 165-178
OperatorEntriesSkipped(a, b, a_src, b_src, my_line) == <<>>

\* lines 165-178
OperatorEntries(a, b, a_src, b_src, my_line) ==
    IF a.type = "Compare" /\ GetField(a, "ops").v # <<>> /\ GetField(b, "ops").v # <<>>
    THEN LET op_a == GetField(a, "ops").v[1].v.type
             op_b == GetField(b, "ops").v[1].v.type
         IN  IF op_a # op_b
             THEN <<DiffEntry("Operator", "line " \o LineStr(my_line),
                              snippet(a_src, FNode(a)), snippet(b_src, FNode(b)),
                              "Condition operator changed (" \o op_a \o " -> " \o op_b \o ")",
                              "warning")>>
             ELSE <<>>
    ELSE <<>>

\* lines 180-190
LiteralEntries(a, b, my_line) ==
    IF a.type = "Constant" /\ ~PyEq(GetField(a, "value").v, GetField(b, "value").v)
    THEN LET va == GetField(a, "value").v
             vb == GetField(b, "value").v
         IN  <<DiffEntry("Literal", "line " \o LineStr(my_line),
                         <<TextLine(0, PyRepr(va))>>, <<TextLine(0, PyRepr(vb))>>,
                         "Literal value changed (" \o PyRepr(va) \o " -> " \o PyRepr(vb) \o ")",
                         "warning")>>
    ELSE <<>>

\* lines 192-208
CallEntries(a, b, my_line) ==
    IF /\ a.type = "Call" /\ b.type = "Call"
       /\ IsAST(GetField(a, "func")) /\ GetField(a, "func").v.type = "Name"
       /\ IsAST(GetField(b, "func")) /\ GetField(b, "func").v.type = "Name"
       /\ ~PyEq(GetField(GetField(a, "func").v, "id").v, GetField(GetField(b, "func").v, "id").v)
    THEN LET fa == GetField(GetField(a, "func").v, "id").v.s
             fb == GetField(GetField(b, "func").v, "id").v.s
         IN  <<DiffEntry("Call", "line " \o LineStr(my_line),
                         <<TextLine(0, fa)>>, <<TextLine(0, fb)>>,
                         "Function call renamed (" \o fa \o " -> " \o fb \o ")",
                         "error")>>
    ELSE <<>>

\* lines 240-251
IdentifierEntries(field, ca, cb, my_line) ==
    IF FieldNe(ca, cb) /\ IsIdentifierField(field)
    THEN <<DiffEntry("Identifier", "line " \o LineStr(my_line),
                     <<TextLine(0, PyStrOf(ca.v))>>, <<TextLine(0, PyStrOf(cb.v))>>,
                     "Identifier changed (" \o PyStrOf(ca.v) \o " -> " \o PyStrOf(cb.v) \o ")",
                     "info")>>
    ELSE <<>>

RECURSIVE diff_nodes(_, _, _, _, _)
RECURSIVE diff_fields(_, _, _, _, _, _)
RECURSIVE diff_list(_, _, _, _, _, _)

\* lines 214-235: the pairs of zip_longest(ca, cb) from position i on
diff_list(ca, cb, a_src, b_src, my_line, i) ==
    IF i > Max(Len(ca), Len(cb)) THEN <<>>
    ELSE LET xa == ZipItem(ca, i)
             xb == ZipItem(cb, i)
             here == IF IsNone(xa) \/ IsNone(xb)
                     THEN <<MissingEntry(xa, xb, a_src, b_src, my_line)>>
                     ELSE IF IsAST(xa)
                     THEN diff_nodes(xa.v, xb.v, a_src, b_src, my_line)
                     ELSE <<>>
         IN  here \o diff_list(ca, cb, a_src, b_src, my_line, i + 1)

\* lines 210-251: the fields of a from position i on
diff_fields(a, b, a_src, b_src, my_line, i) ==
    IF i > Len(Fields(a.type)) THEN <<>>
    ELSE LET field == Fields(a.type)[i]
             ca == a.f[i]
             cb == GetField(b, field)
             here == IF IsList(ca) /\ IsList(cb)
                     THEN diff_list(ca.v, cb.v, a_src, b_src, my_line, 1)
                     ELSE IF IsAST(ca) /\ IsAST(cb)
                     THEN diff_nodes(ca.v, cb.v, a_src, b_src, my_line)
                     ELSE IdentifierEntries(field, ca, cb, my_line)
         IN  here \o diff_fields(a, b, a_src, b_src, my_line, i + 1)

\* a walk that reports a pair of nodes of different types and still descends
\* into the fields of the pair
diff_nodes_descending(a, b, a_src, b_src, current_line) ==
    LET my_line == lineno(FNode(a), current_line)
    IN  (IF a.type # b.type
         THEN <<DiffEntry("NodeType", "line " \o LineStr(my_line),
                          snippet(a_src, FNode(a)), snippet(b_src, FNode(b)),
                          a.type \o " replaced by " \o b.type,
                          "error")>>
         ELSE OperatorEntries(a, b, a_src, b_src, my_line)
              \o LiteralEntries(a, b, my_line)
              \o CallEntries(a, b, my_line))
        \o diff_fields(a, b, a_src, b_src, my_line, 1)

\* a walk that, having reported a changed operator, leaves the comparison
diff_nodes_leaving_comparison(a, b, a_src, b_src, current_line) ==
    LET my_line == lineno(FNode(a), current_line)
    IN  IF a.type # b.type
        THEN <<DiffEntry("NodeType", "line " \o LineStr(my_line),
                         snippet(a_src, FNode(a)), snippet(b_src, FNode(b)),
                         a.type \o " replaced by " \o b.type,
                         "error")>>
        ELSE IF OperatorEntries(a, b, a_src, b_src, my_line) # <<>>
        THEN OperatorEntries(a, b, a_src, b_src, my_line)
        ELSE LiteralEntries(a, b, my_line)
             \o CallEntries(a, b, my_line)
             \o diff_fields(a, b, a_src, b_src, my_line, 1)

\* StrictComparator._diff_nodes: the entries appended to out, in order
diff_nodes(a, b, a_src, b_src, current_line) ==
    LET my_line == lineno(FNode(a), current_line)
    IN  IF a.type # b.type
        THEN <<DiffEntry("NodeType", "line " \o LineStr(my_line),
                         snippet(a_src, FNode(a)), snippet(b_src, FNode(b)),
                         a.type \o " replaced by " \o b.type,
                         "error")>>
        ELSE OperatorEntries(a, b, a_src, b_src, my_line)
             \o LiteralEntries(a, b, my_line)
             \o CallEntries(a, b, my_line)
             \o diff_fields(a, b, a_src, b_src, my_line, 1)

\* the lines earlier calls of Utils.compare returned
SeenInLog ==
    UNION {UNION {{r.strict_comparison[k] : k \in 1..Len(r.strict_comparison)} :
                     r \in {log[n].result.function_specific_diffs[m].val :
                               m \in 1..Len(log[n].result.function_specific_diffs)}} :
              n \in 1..Len(log)}

\* a de-duplication whose seen set outlives the call
RECURSIVE DedupShared(_, _, _)
DedupShared(ds, i, lines) ==
    IF i > Len(ds) THEN lines
    ELSE LET line == to_line(ds[i])
         IN  DedupShared(ds, i + 1,
                   IF (\E j \in 1..Len(lines) : lines[j] = line) \/ line \in SeenInLog
                   THEN lines ELSE Append(lines, line))

\* a de-duplication that only drops a line equal to the one just kept
RECURSIVE DedupAdjacent(_, _, _)
DedupAdjacent(ds, i, lines) ==
    IF i > Len(ds) THEN lines
    ELSE LET line == to_line(ds[i])
         IN  DedupAdjacent(ds, i + 1,
                   IF lines # <<>> /\ lines[Len(lines)] = line THEN lines
                   ELSE Append(lines, line))

\* lines 280-286: the rendered lines without repetition, first occurrences kept
RECURSIVE Dedup(_, _, _)
Dedup(ds, i, lines) ==
    IF i > Len(ds) THEN lines
    ELSE LET line == to_line(ds[i])
         IN  Dedup(ds, i + 1,
                   IF \E j \in 1..Len(lines) : lines[j] = line THEN lines
                   ELSE Append(lines, line))

NoDifferences == "OK No structural differences detected."

\* the _DiffEntry list of StrictComparator.compare (lines 272-275); the walk is
\* started with the student's tree as a and the teacher's as b
compare_diffs(student_code, teacher_code) ==
    diff_nodes(parse(student_code), parse(teacher_code),
               source_lines(student_code), source_lines(teacher_code), 0)

\* a variant of StrictComparator.compare whose handler reports each text that
\* fails to parse on a line of its own
compare_reporting_each_side(student_code, teacher_code) ==
    LET bad == SelectSeq(<<student_code, teacher_code>>, LAMBDA u : SyntaxError(u))
    IN  IF bad # <<>>
        THEN [i \in 1..Len(bad) |->
                 "(x) Syntax error while parsing code: " \o SyntaxErrorText(bad[i])]
        ELSE LET ds == compare_diffs(student_code, teacher_code)
             IN  IF ds = <<>> THEN <<NoDifferences>> ELSE Dedup(ds, 1, <<>>)

\* StrictComparator.compare
StrictComparator_compare(student_code, teacher_code) ==
    IF SyntaxError(student_code)
    THEN <<"(x) Syntax error while parsing code: " \o SyntaxErrorText(student_code)>>
    ELSE IF SyntaxError(teacher_code)
    THEN <<"(x) Syntax error while parsing code: " \o SyntaxErrorText(teacher_code)>>
    ELSE LET ds == compare_diffs(student_code, teacher_code)
         IN  IF ds = <<>> THEN <<NoDifferences>> ELSE Dedup(ds, 1, <<>>)

-----------------------------------------------------------------------------
(* The inputs of the strict differ *)

RECURSIVE SeqsUpTo(_, _)
SeqsUpTo(S, n) ==
    IF n = 0 THEN {<<>>}
    ELSE LET shorter == SeqsUpTo(S, n - 1)
         IN  shorter \cup {Append(q, x) : q \in shorter, x \in S}

\* statement lists: positional pairing, trailing elements
ListStmts == {StCall("f", "x"), StIf("x", "Eq", PyInt(0)), StIf("x", "NotEq", PyInt(0))}
ListUnits == {Unit("block", "", "", body) : body \in SeqsUpTo(ListStmts, MaxStmts)}

\* one statement in the variable v, in every form of unit
VariantStmts(v) ==
    {StIf(v, "Eq", PyInt(0)), StIf(v, "NotEq", PyInt(0)), StIf(v, "Eq", PyInt(1)),
     StIf(v, "Eq", PyBool(TRUE)), StIf2(v, "Lt", "Lt"), StIf2(v, "Lt", "Gt"),
     StIf2(v, "Gt", "Lt"),
     StRet(v), StCall("f", v), StCall("g", v), StCallP(v), StDict(v)}
VariantUnits ==
    UNION {{Unit(form, "f", v, <<st>>) : form \in {"def1", "defN"}, st \in VariantStmts(v)} :
              v \in {"x", "y"}}
    \cup {Unit("block", "", "", <<st>>) : st \in VariantStmts("x") \cup VariantStmts("y")}

BadUnit == Unit("bad", "", "", <<>>)

\* statement lists with a dict display that unpacks a mapping
UnpackUnits ==
    {Unit("block", "", "", body) : body \in SeqsUpTo({StDict("x"), StRet("x")}, 2)}

\* definitions under two names
NamedUnits ==
    {Unit("defN", n, "x", <<StRet(v)>>) : n \in {"f", "g"}, v \in {"x", "y"}}

StrictInputs ==
    (ListUnits \X ListUnits) \cup (VariantUnits \X VariantUnits)
    \cup (UnpackUnits \X UnpackUnits) \cup (NamedUnits \X NamedUnits)
    \cup ({BadUnit} \X {BadUnit, Unit("block", "", "", <<StRet("x")>>)})
    \cup ({Unit("block", "", "", <<StRet("x")>>)} \X {BadUnit})

InitStrict ==
    /\ pc = "ready"
    /\ \E in \in StrictInputs : teacher = in[1] /\ student = in[2]
    /\ diffs = <<>> /\ strict = <<>>
    /\ diffs_sw = <<>> /\ strict_sw = <<>>
    /\ unified = <<>> /\ unified_sw = <<>>
    /\ result = <<>> /\ log = <<>>
    /\ NoFiles /\ NoConclusion /\ NoNormalization

\* a call StrictComparator.compare(student, teacher)
StrictCompare ==
    /\ pc = "ready"
    /\ pc' = "compared"
    /\ diffs' = IF SyntaxError(student) \/ SyntaxError(teacher) THEN <<>>
                ELSE compare_diffs(student, teacher)
    /\ strict' = StrictComparator_compare(student, teacher)
    /\ UNCHANGED <<teacher, student, diffs_sw, strict_sw, unified, unified_sw, result, log, filesVars, aiVars, scriptVars>>

\* the same call with the two arguments swapped
StrictCompareSwapped ==
    /\ pc = "compared"
    /\ pc' = "swapped"
    /\ diffs_sw' = IF SyntaxError(student) \/ SyntaxError(teacher) THEN <<>>
                   ELSE compare_diffs(teacher, student)
    /\ strict_sw' = StrictComparator_compare(teacher, student)
    /\ UNCHANGED <<teacher, student, diffs, strict, unified, unified_sw, result, log, filesVars, aiVars, scriptVars>>

NextStrict == StrictCompare \/ StrictCompareSwapped

SpecStrict == InitStrict /\ [][NextStrict]_vars

-----------------------------------------------------------------------------
(* difflib.SequenceMatcher(a=..., b=..., autojunk=False), as used by        *)
(* first_pass, refine_replace_spans and (through ndiff) small_edit.         *)
(* Indices are Python's: 0-based, ranges half-open.                         *)

\* length of the common run of a and b starting at a[i], b[j] inside the windows
RECURSIVE RunLen(_, _, _, _, _, _)
RunLen(a, b, i, j, ahi, bhi) ==
    IF i < ahi /\ j < bhi /\ a[i + 1] = b[j + 1]
    THEN 1 + RunLen(a, b, i + 1, j + 1, ahi, bhi)
    ELSE 0

SetMax(S) == CHOOSE x \in S : \A y \in S : y <= x
SetMin(S) == CHOOSE x \in S : \A y \in S : x <= y

\* SequenceMatcher.find_longest_match: the longest block, of those the one that
\* starts earliest in a, of those the one that starts earliest in b
find_longest_match(a, b, alo, ahi, blo, bhi) ==
    LET I == alo..(ahi - 1)
        J == blo..(bhi - 1)
        k == IF I = {} \/ J = {} THEN 0
             ELSE SetMax({RunLen(a, b, i, j, ahi, bhi) : i \in I, j \in J})
    IN  IF k = 0 THEN <<alo, blo, 0>>
        ELSE LET i == SetMin({x \in I : \E j \in J : RunLen(a, b, x, j, ahi, bhi) = k})
                 j == SetMin({y \in J : RunLen(a, b, i, y, ahi, bhi) = k})
             IN  <<i, j, k>>

\* the blocks of SequenceMatcher.get_matching_blocks inside the windows, sorted
RECURSIVE matching_blocks(_, _, _, _, _, _)
RECURSIVE blocks_around(_, _, _, _, _, _, _)
matching_blocks(a, b, alo, ahi, blo, bhi) ==
    blocks_around(a, b, alo, ahi, blo, bhi, find_longest_match(a, b, alo, ahi, blo, bhi))

\* the longest block m = (i, j, k) of the windows, with the blocks before and after it
blocks_around(a, b, alo, ahi, blo, bhi, m) ==
    IF m[3] = 0 THEN <<>>
    ELSE (IF alo < m[1] /\ blo < m[2] THEN matching_blocks(a, b, alo, m[1], blo, m[2]) ELSE <<>>)
         \o <<m>>
         \o (IF m[1] + m[3] < ahi /\ m[2] + m[3] < bhi
             THEN matching_blocks(a, b, m[1] + m[3], ahi, m[2] + m[3], bhi) ELSE <<>>)

\* adjacent blocks are collapsed into one
RECURSIVE collapse(_, _)
collapse(blocks, done) ==
    IF blocks = <<>> THEN done
    ELSE LET m == Head(blocks)
             n == Len(done)
         IN  IF n > 0 /\ done[n][1] + done[n][3] = m[1] /\ done[n][2] + done[n][3] = m[2]
             THEN collapse(Tail(blocks),
                           [done EXCEPT ![n] = <<done[n][1], done[n][2], done[n][3] + m[3]>>])
             ELSE collapse(Tail(blocks), Append(done, m))

\* SequenceMatcher.get_matching_blocks, with its closing (len(a), len(b), 0)
get_matching_blocks(a, b) ==
    Append(collapse(matching_blocks(a, b, 0, Len(a), 0, Len(b)), <<>>),
           <<Len(a), Len(b), 0>>)

Opcode(tag, i1, i2, j1, j2) == <<tag, i1, i2, j1, j2>>

RECURSIVE opcodes_from(_, _, _)
opcodes_from(blocks, i, j) ==
    IF blocks = <<>> THEN <<>>
    ELSE LET ai == Head(blocks)[1]
             bj == Head(blocks)[2]
             size == Head(blocks)[3]
             tag == IF i < ai /\ j < bj THEN "replace"
                    ELSE IF i < ai THEN "delete"
                    ELSE IF j < bj THEN "insert"
                    ELSE ""
         IN  (IF tag # "" THEN <<Opcode(tag, i, ai, j, bj)>> ELSE <<>>)
             \o (IF size > 0 THEN <<Opcode("equal", ai, ai + size, bj, bj + size)>> ELSE <<>>)
             \o opcodes_from(Tail(blocks), ai + size, bj + size)

\* SequenceMatcher.get_opcodes
get_opcodes(a, b) == opcodes_from(get_matching_blocks(a, b), 0, 0)

RECURSIVE SumSizes(_)
SumSizes(blocks) == IF blocks = <<>> THEN 0 ELSE Head(blocks)[3] + SumSizes(Tail(blocks))

\* sum(1 for c in ndiff(a, b) if c[0] in "-+"): ndiff gives one "  " line per
\* matched character and a "- " or "+ " line for every other character
ndiff_changes(a, b) == Len(a) + Len(b) - 2 * SumSizes(get_matching_blocks(a, b))

-----------------------------------------------------------------------------
(* backend/lib/structural_comparison.py                                     *)
(* A line of flowchart DSL is a record.  A node line  name=>type: label     *)
(* keeps its label as a sequence of characters, since the code cuts,        *)
(* strips and compares labels character by character; flag is the text      *)
(* after the "|" that ends the label ("": none).  The other lines (the      *)
(* wiring) keep their text in name.  An overlay line, which merged_dsl      *)
(* builds, also carries the student's label and the glyph.                  *)

\* label[:30] in extract_node_id
LABEL_PREFIX == 30
\* diff <= 4 in small_edit
EDIT_MAX == 4

DslLine(kind, name, type, label, student_lbl, glyph, flag_) ==
    [kind |-> kind, name |-> name, type |-> type, label |-> label,
     student |-> student_lbl, glyph |-> glyph, flag |-> flag_]
NodeLine(name, type, label) == DslLine("node", name, type, label, <<>>, "", "")
WireLine(text) == DslLine("wire", text, "", <<>>, <<>>, "", "")

IsBlank(c) == c = " "

RECURSIVE LStrip(_)
LStrip(cs) == IF cs # <<>> /\ IsBlank(Head(cs)) THEN LStrip(Tail(cs)) ELSE cs
RECURSIVE RStrip(_)
RStrip(cs) ==
    IF cs # <<>> /\ IsBlank(cs[Len(cs)]) THEN RStrip(SubSeq(cs, 1, Len(cs) - 1)) ELSE cs
\* str.strip()
StripChars(cs) == RStrip(LStrip(cs))

\* text.split('|', 1)[0]
RECURSIVE BeforeBar(_)
BeforeBar(cs) ==
    IF cs = <<>> \/ Head(cs) = "|" THEN <<>> ELSE <<Head(cs)>> \o BeforeBar(Tail(cs))

\* StructuralComparator.extract_node_type
extract_node_type(line) == line.type

\* StructuralComparator.extract_node_label: the text between the first ":" and
\* the first "|" after it; it starts with the blank that follows the colon
extract_node_label(line) == <<" ">> \o BeforeBar(line.label)

\* StructuralComparator.extract_node_id: "type|label"
extract_node_id(line) ==
    LET typ   == extract_node_type(line)
        label == extract_node_label(line)
    IN  [typ |-> typ,
         label |-> StripChars(SubSeq(label, 1, Min(Len(label), LABEL_PREFIX)))]

\* n[1].split('|', 1)[0] in refine_replace_spans
IdType(id) == id.typ

\* StructuralComparator.split_nodes: the (line, id) pairs, and the other lines
split_nodes(dsl) ==
    LET node_ix  == {i \in 1..Len(dsl) : dsl[i].kind = "node"}
        Pick(ix) == LET RECURSIVE P(_)
                        P(i) == IF i > Len(dsl) THEN <<>>
                                ELSE (IF i \in ix THEN <<dsl[i]>> ELSE <<>>) \o P(i + 1)
                    IN  P(1)
        \* ln.strip(): the blanks that end the line go
        Stripped(ln) == IF ln.flag = "" THEN [ln EXCEPT !.label = RStrip(ln.label)] ELSE ln
        lines == [i \in 1..Cardinality(node_ix) |-> Stripped(Pick(node_ix)[i])]
    IN  [nodes |-> [i \in 1..Len(lines) |-> <<lines[i], extract_node_id(lines[i])>>],
         other |-> Pick((1..Len(dsl)) \ node_ix)]

\* StructuralComparator.first_pass
first_pass(t_ids, s_ids) == get_opcodes(t_ids, s_ids)

\* a refinement that forgets to move the opcodes of the sub-range back
RefineOneUnshifted(op, t_nodes, s_nodes) ==
    IF op[1] # "replace" THEN <<op>>
    ELSE get_opcodes([i \in 1..(op[3] - op[2]) |-> IdType(t_nodes[op[2] + i][2])],
                     [j \in 1..(op[5] - op[4]) |-> IdType(s_nodes[op[4] + j][2])])

\* the opcodes of one first-pass opcode after refinement (lines 141-151)
RefineOne(op, t_nodes, s_nodes) ==
    IF op[1] # "replace" THEN <<op>>
    ELSE LET t_lo == op[2]
             t_hi == op[3]
             s_lo == op[4]
             s_hi == op[5]
             typ_a == [i \in 1..(t_hi - t_lo) |-> IdType(t_nodes[t_lo + i][2])]
             typ_b == [j \in 1..(s_hi - s_lo) |-> IdType(s_nodes[s_lo + j][2])]
             sub == get_opcodes(typ_a, typ_b)
         IN  [n \in 1..Len(sub) |->
                Opcode(sub[n][1], t_lo + sub[n][2], t_lo + sub[n][3],
                                  s_lo + sub[n][4], s_lo + sub[n][5])]

\* no second pass: the opcodes of the first pass as they are
unrefined_spans(opcodes, t_nodes, s_nodes) == opcodes

\* StructuralComparator.refine_replace_spans
RECURSIVE refine_replace_spans(_, _, _)
refine_replace_spans(opcodes, t_nodes, s_nodes) ==
    IF opcodes = <<>> THEN <<>>
    ELSE RefineOne(Head(opcodes), t_nodes, s_nodes)
         \o refine_replace_spans(Tail(opcodes), t_nodes, s_nodes)

\* flag(line, suf) of merged_dsl: the line up to its first "|", then the flag
flag(line, suf) == [line EXCEPT !.label = BeforeBar(line.label), !.flag = suf]

\* small_edit of merged_dsl
small_edit(a, b) ==
    IF a = <<>> \/ b = <<>> THEN FALSE
    ELSE LET diff == ndiff_changes(a, b)
         IN  diff <= EDIT_MAX \/ 4 * diff <= Max(Len(a), Len(b))

\* overlay of merged_dsl
overlay(t_line, s_line) ==
    LET teacher_lbl == StripChars(extract_node_label(t_line))
        student_lbl == StripChars(extract_node_label(s_line))
        minor       == small_edit(teacher_lbl, student_lbl)
    IN  DslLine("overlay", t_line.name, t_line.type, teacher_lbl, student_lbl,
                IF minor THEN "edit" ELSE "delta",
                IF minor THEN "diff_edit" ELSE "diff_replace")

\* a merge whose replace emits the overlays only, without the nodes the longer
\* side has left
MergeOneWithoutLeftovers(op, t_nodes, s_nodes) ==
    CASE op[1] = "equal" ->
            [i \in 1..(op[3] - op[2]) |-> t_nodes[op[2] + i][1]]
      [] op[1] = "replace" ->
            [k \in 1..Min(op[3] - op[2], op[5] - op[4]) |->
                overlay(t_nodes[op[2] + k][1], s_nodes[op[4] + k][1])]
      [] op[1] = "delete" ->
            [i \in 1..(op[3] - op[2]) |-> flag(t_nodes[op[2] + i][1], "diff_teacher_only")]
      [] op[1] = "insert" ->
            [j \in 1..(op[5] - op[4]) |-> flag(s_nodes[op[4] + j][1], "diff_student_only")]
      [] OTHER -> <<>>

\* the lines merged_dsl appends for one opcode (lines 254-272)
MergeOne(op, t_nodes, s_nodes) ==
    LET tag == op[1]
        t_lo == op[2]
        t_hi == op[3]
        s_lo == op[4]
        s_hi == op[5]
        n == Min(t_hi - t_lo, s_hi - s_lo)
    IN  CASE tag = "equal" ->
                [i \in 1..(t_hi - t_lo) |-> t_nodes[t_lo + i][1]]
          [] tag = "replace" ->
                [k \in 1..n |-> overlay(t_nodes[t_lo + k][1], s_nodes[s_lo + k][1])]
                \o [i \in 1..(t_hi - t_lo - n) |->
                        flag(t_nodes[t_lo + n + i][1], "diff_teacher_only")]
                \o [j \in 1..(s_hi - s_lo - n) |->
                        flag(s_nodes[s_lo + n + j][1], "diff_student_only")]
          [] tag = "delete" ->
                [i \in 1..(t_hi - t_lo) |-> flag(t_nodes[t_lo + i][1], "diff_teacher_only")]
          [] tag = "insert" ->
                [j \in 1..(s_hi - s_lo) |-> flag(s_nodes[s_lo + j][1], "diff_student_only")]
          [] OTHER -> <<>>

RECURSIVE MergeAll(_, _, _)
MergeAll(opcodes, t_nodes, s_nodes) ==
    IF opcodes = <<>> THEN <<>>
    ELSE MergeOne(Head(opcodes), t_nodes, s_nodes)
         \o MergeAll(Tail(opcodes), t_nodes, s_nodes)

\* StructuralComparator.merged_dsl: the lines joined into the unified DSL
merged_dsl(opcodes, t_nodes, s_nodes, t_other) ==
    MergeAll(opcodes, t_nodes, s_nodes) \o t_other

\* lines 174-184 of StructuralComparator.compare, from the two flowchart DSLs
compare_flows(s_flow, t_flow) ==
    LET t == split_nodes(t_flow)
        s == split_nodes(s_flow)
        first == first_pass([i \in 1..Len(t.nodes) |-> t.nodes[i][2]],
                            [i \in 1..Len(s.nodes) |-> s.nodes[i][2]])
        opcodes == refine_replace_spans(first, t.nodes, s.nodes)
    IN  merged_dsl(opcodes, t.nodes, s.nodes, t.other)

-----------------------------------------------------------------------------
(* Flowchart.from_code(code).flowchart(): the flowchart DSL the translator  *)
(* gives for a text: a start and an input node for a definition, one node   *)
(* per statement (and the end node after a return), then the wiring.        *)

OpChars(op) ==
    CASE op = "Eq" -> <<"=", "=">> [] op = "NotEq" -> <<"!", "=">>
      [] op = "Lt" -> <<"<">> [] OTHER -> <<">">>

ReprChars(c) ==
    CASE c.ty = "bool" -> (IF c.n = 1 THEN <<"T", "r", "u", "e">> ELSE <<"F", "a", "l", "s", "e">>)
      [] c.ty = "int"  -> <<ToString(c.n)>>
      [] OTHER         -> <<"N", "o", "n", "e">>

\* the text of a statement, character by character
StmtChars(st) ==
    CASE st.k = "if" ->
            <<"i", "f", " ", st.v, " ">> \o OpChars(st.ops[1]) \o <<" ">>
            \o (IF Len(st.ops) = 1 THEN <<>> ELSE <<st.v, " ">> \o OpChars(st.ops[2]) \o <<" ">>)
            \o ReprChars(st.c)
      [] st.k = "ret"   -> <<"o", "u", "t", "p", "u", "t", ":", " ", " ", st.v>>
      [] st.k = "call"  -> <<st.fn, "(", st.v, ")">>
      [] st.k = "callp" -> <<st.v, "(">> \o ReprChars(st.c) \o <<")">>
      [] OTHER          -> <<"d", " ", "=", " ", "{", "*", "*", st.v, "}">>

StmtNodeType(st) ==
    CASE st.k = "if" -> "condition" [] st.k = "ret" -> "inputoutput"
      [] st.k \in {"call", "callp"} -> "subroutine" [] OTHER -> "operation"

RECURSIVE StmtNodes(_, _)
StmtNodes(body, i) ==
    IF i > Len(body) THEN <<>>
    ELSE <<NodeLine("n" \o ToString(i), StmtNodeType(body[i]), StmtChars(body[i]))>>
         \o (IF body[i].k = "ret"
             THEN <<NodeLine("e" \o ToString(i), "end",
                             <<"e", "n", "d", " ", "f", "u", "n", "c", "t", "i", "o", "n",
                               " ", "r", "e", "t", "u", "r", "n">>)>>
             ELSE <<>>)
         \o StmtNodes(body, i + 1)

\* whether the translator raises on the text
FlowError(u) == SyntaxError(u)

flowchart(u) ==
    LET head == IF u.form \in {"def1", "defN"}
                THEN <<NodeLine("st", "start", <<"s", "t", "a", "r", "t", " ", u.fname>>),
                       NodeLine("io", "inputoutput", <<"i", "n", "p", "u", "t", ":", " ", u.p>>)>>
                ELSE <<>>
        nodes == head \o StmtNodes(u.body, 1)
    IN  nodes \o [i \in 1..(Len(nodes) - 1) |-> WireLine(nodes[i].name \o "->" \o nodes[i + 1].name)]

\* a variant of StructuralComparator.compare that treats a student text
\* without a flow as a text with an empty flow
compare_with_empty_student_flow(student_code, teacher_code) ==
    IF FlowError(teacher_code)
    THEN [unifiedDSL |-> <<>>, structural_error |-> PyStr(SyntaxErrorText(teacher_code))]
    ELSE [unifiedDSL |-> compare_flows(IF FlowError(student_code) THEN <<>>
                                       ELSE flowchart(student_code),
                                       flowchart(teacher_code)),
          structural_error |-> PyNone]

\* StructuralComparator.compare
StructuralComparator_compare(student_code, teacher_code) ==
    IF FlowError(teacher_code)
    THEN [unifiedDSL |-> <<>>, structural_error |-> PyStr(SyntaxErrorText(teacher_code))]
    ELSE IF FlowError(student_code)
    THEN [unifiedDSL |-> <<>>, structural_error |-> PyStr(SyntaxErrorText(student_code))]
    ELSE [unifiedDSL |-> compare_flows(flowchart(student_code), flowchart(teacher_code)),
          structural_error |-> PyNone]

-----------------------------------------------------------------------------
(* backend/lib/utils.py *)

\* code.splitlines(keepends=True): every line but the last ends in a newline
keepends_lines(u) ==
    LET ls == source_lines(u)
    IN  [i \in 1..Len(ls) |-> [ind |-> ls[i].ind, t |-> ls[i].t, nl |-> i < Len(ls)]]

\* lines of context of difflib.unified_diff
CONTEXT == 3

\* difflib.SequenceMatcher.get_grouped_opcodes(3)
TrimFirst(c) ==
    IF c[1] = "equal"
    THEN Opcode("equal", Max(c[2], c[3] - CONTEXT), c[3], Max(c[4], c[5] - CONTEXT), c[5])
    ELSE c
TrimLast(c) ==
    IF c[1] = "equal"
    THEN Opcode("equal", c[2], Min(c[3], c[2] + CONTEXT), c[4], Min(c[5], c[4] + CONTEXT))
    ELSE c

RECURSIVE group_opcodes(_, _, _)
group_opcodes(codes, group, groups) ==
    IF codes = <<>>
    THEN IF group # <<>> /\ ~(Len(group) = 1 /\ group[1][1] = "equal")
         THEN Append(groups, group) ELSE groups
    ELSE LET c == Head(codes)
         IN  IF c[1] = "equal" /\ c[3] - c[2] > 2 * CONTEXT
             THEN group_opcodes(
                    Tail(codes),
                    <<Opcode("equal", Max(c[2], c[3] - CONTEXT), c[3],
                                      Max(c[4], c[5] - CONTEXT), c[5])>>,
                    Append(groups,
                           Append(group, Opcode("equal", c[2], Min(c[3], c[2] + CONTEXT),
                                                         c[4], Min(c[5], c[4] + CONTEXT)))))
             ELSE group_opcodes(Tail(codes), Append(group, c), groups)

\* codes = [("equal", 0, 1, 0, 1)] when there are none
DefaultCodes(codes) == IF codes = <<>> THEN <<Opcode("equal", 0, 1, 0, 1)>> ELSE codes

\* the first and the last opcode lose the context beyond three lines
TrimEnds(codes) ==
    [n \in 1..Len(codes) |->
        IF n = 1 /\ n = Len(codes) THEN TrimLast(TrimFirst(codes[n]))
        ELSE IF n = 1 THEN TrimFirst(codes[n])
        ELSE IF n = Len(codes) THEN TrimLast(codes[n])
        ELSE codes[n]]

get_grouped_opcodes(a, b) ==
    group_opcodes(TrimEnds(DefaultCodes(get_opcodes(a, b))), <<>>, <<>>)

\* difflib._format_range_unified
format_range_unified(start, stop) ==
    LET length == stop - start
    IN  IF length = 1 THEN ToString(start + 1)
        ELSE ToString(IF length = 0 THEN start ELSE start + 1) \o "," \o ToString(length)

DiffLine(prefix, line) == [prefix |-> prefix, ind |-> line.ind, t |-> line.t, nl |-> line.nl]
HeaderLine(text) == [prefix |-> "", ind |-> 0, t |-> text, nl |-> FALSE]

HunkOpLines(c, a, b) ==
    IF c[1] = "equal" THEN [i \in 1..(c[3] - c[2]) |-> DiffLine(" ", a[c[2] + i])]
    ELSE (IF c[1] \in {"replace", "delete"}
          THEN [i \in 1..(c[3] - c[2]) |-> DiffLine("-", a[c[2] + i])] ELSE <<>>)
         \o (IF c[1] \in {"replace", "insert"}
             THEN [j \in 1..(c[5] - c[4]) |-> DiffLine("+", b[c[4] + j])] ELSE <<>>)

RECURSIVE HunkLines(_, _, _)
HunkLines(group, a, b) ==
    IF group = <<>> THEN <<>>
    ELSE HunkOpLines(Head(group), a, b) \o HunkLines(Tail(group), a, b)

\* the lines of one group: the @@ line, then the lines of its opcodes
Hunk(g, a, b) ==
    <<HeaderLine("@@ -" \o format_range_unified(g[1][2], g[Len(g)][3])
                 \o " +" \o format_range_unified(g[1][4], g[Len(g)][5]) \o " @@")>>
    \o HunkLines(g, a, b)

RECURSIVE Hunks(_, _, _)
Hunks(groups, a, b) ==
    IF groups = <<>> THEN <<>>
    ELSE Hunk(Head(groups), a, b) \o Hunks(Tail(groups), a, b)

\* list(unified_diff(student_lines, teacher_lines, ...))
diff_lines(a, b, func_name) ==
    IF get_grouped_opcodes(a, b) = <<>> THEN <<>>
    ELSE <<HeaderLine("--- a/" \o func_name \o ".py"),
           HeaderLine("+++ b/" \o func_name \o ".py")>>
         \o Hunks(get_grouped_opcodes(a, b), a, b)

\* Utils.generate_unified_diff: the lines that are joined into the diff
generate_unified_diff(student_code, teacher_code, func_name) ==
    diff_lines(keepends_lines(student_code), keepends_lines(teacher_code), func_name)

\* a dictionary: its items in insertion order
Item(key, val) == [key |-> key, val |-> val]
DictHas(d, key) == \E i \in 1..Len(d) : d[i].key = key
DictGet(d, key, default) ==
    IF DictHas(d, key) THEN d[CHOOSE i \in 1..Len(d) : d[i].key = key].val ELSE default

\* d[key] = val
DictSet(d, key, val) ==
    IF DictHas(d, key)
    THEN [i \in 1..Len(d) |-> IF d[i].key = key THEN Item(key, val) ELSE d[i]]
    ELSE Append(d, Item(key, val))

\* the first loop of Utils.check_function_mismatch (lines 157-164), from item i on
RECURSIVE mismatch_student(_, _, _, _)
mismatch_student(student_dict, check_dict, i, acc) ==
    IF i > Len(student_dict) THEN acc
    ELSE LET fn_name == student_dict[i].key
         IN  mismatch_student(student_dict, check_dict, i + 1,
                IF DictHas(check_dict, fn_name)
                THEN [acc EXCEPT
                        !.matched_in_student = DictSet(@, fn_name, student_dict[i].val),
                        !.matched_in_check = DictSet(@, fn_name, DictGet(check_dict, fn_name, <<>>))]
                ELSE [acc EXCEPT
                        !.differences_list = Append(@, "Function '" \o fn_name
                            \o "' is in student code but missing in teacher code.")])

\* a second loop that looks the name up in the teacher's own dictionary
RECURSIVE mismatch_teacher_own(_, _, _, _)
mismatch_teacher_own(student_dict, check_dict, i, acc) ==
    IF i > Len(check_dict) THEN acc
    ELSE LET fn_name == check_dict[i].key
         IN  mismatch_teacher_own(student_dict, check_dict, i + 1,
                IF ~DictHas(check_dict, fn_name)
                THEN [acc EXCEPT
                        !.differences_list = Append(@, "Function '" \o fn_name
                            \o "' is in teacher code but missing in student code.")]
                ELSE acc)

\* the second loop (lines 165-169), from item i on
RECURSIVE mismatch_teacher(_, _, _, _)
mismatch_teacher(student_dict, check_dict, i, acc) ==
    IF i > Len(check_dict) THEN acc
    ELSE LET fn_name == check_dict[i].key
         IN  mismatch_teacher(student_dict, check_dict, i + 1,
                IF ~DictHas(student_dict, fn_name)
                THEN [acc EXCEPT
                        !.differences_list = Append(@, "Function '" \o fn_name
                            \o "' is in teacher code but missing in student code.")]
                ELSE acc)

\* Utils.check_function_mismatch
check_function_mismatch(student_dict, check_dict) ==
    mismatch_teacher(student_dict, check_dict, 1,
        mismatch_student(student_dict, check_dict, 1,
            [matched_in_student |-> <<>>, matched_in_check |-> <<>>,
             differences_list |-> <<>>]))

\* the dictionary Utils.compare stores for one unit (lines 230-239, 252-261)
compare_unit(student_code, teacher_code, func_name) ==
    LET strict_comparison == StrictComparator_compare(student_code, teacher_code)
        structural_info   == StructuralComparator_compare(student_code, teacher_code)
        unified_diff      == generate_unified_diff(student_code, teacher_code, func_name)
    IN  [strict_comparison    |-> strict_comparison,
         unifiedDSL           |-> structural_info.unifiedDSL,
         structuralComparison |-> structural_info.structural_error,
         unified_diff         |-> unified_diff]

\* the text ""
EmptyCode == Unit("block", "", "", <<>>)

\* the loop of lines 248-261, from item i of student_funcs on
RECURSIVE compare_funcs(_, _, _, _)
compare_funcs(student_funcs, teacher_funcs, i, res) ==
    IF i > Len(student_funcs) THEN res
    ELSE LET func_name == student_funcs[i].key
         IN  compare_funcs(student_funcs, teacher_funcs, i + 1,
                IF DictHas(teacher_funcs, func_name)
                THEN DictSet(res, func_name,
                             compare_unit(student_funcs[i].val,
                                          DictGet(teacher_funcs, func_name, EmptyCode),
                                          func_name))
                ELSE res)

\* Utils.compare
Utils_compare(student_dict, teacher_dict) ==
    LET is_block_based == DictHas(student_dict, "main") \/ DictHas(teacher_dict, "main")
        student_funcs == DictGet(student_dict, "functions", <<>>)
        teacher_funcs == DictGet(teacher_dict, "functions", <<>>)
    IN  IF is_block_based
        THEN [module_specific_diffs   |-> [function_mismatch |-> <<>>],
              function_specific_diffs |->
                  <<Item("main", compare_unit(DictGet(student_dict, "main", EmptyCode),
                                              DictGet(teacher_dict, "main", EmptyCode),
                                              "main"))>>]
        ELSE [module_specific_diffs   |->
                  [function_mismatch |->
                      check_function_mismatch(student_funcs, teacher_funcs).differences_list],
              function_specific_diffs |-> compare_funcs(student_funcs, teacher_funcs, 1, <<>>)]

-----------------------------------------------------------------------------
(* The flow differ on the DSLs of two flowcharts *)

\* longest node list of a flowchart
MaxNodes == 2

FlowNode(type, label) == [type |-> type, label |-> label]
FlowNodes ==
    {FlowNode("operation", <<"x", "=", "1">>), FlowNode("operation", <<"x", "=", "2">>),
     FlowNode("operation", <<"p", "q", "r", "s">>), FlowNode("condition", <<"p", "q", "r", "s">>)}

\* the DSL of a chain of nodes: the node lines, then the wiring
Dsl(nodes) ==
    [i \in 1..Len(nodes) |-> NodeLine("n" \o ToString(i), nodes[i].type, nodes[i].label)]
    \o [i \in 1..(Len(nodes) - 1) |-> WireLine("n" \o ToString(i) \o "->n" \o ToString(i + 1))]

FlowInputs == {Dsl(nodes) : nodes \in SeqsUpTo(FlowNodes, MaxNodes)}

InitFlow ==
    /\ pc = "ready"
    /\ teacher \in FlowInputs /\ student \in FlowInputs
    /\ diffs = <<>> /\ strict = <<>>
    /\ diffs_sw = <<>> /\ strict_sw = <<>>
    /\ unified = <<>> /\ unified_sw = <<>>
    /\ result = <<>> /\ log = <<>>
    /\ NoFiles /\ NoConclusion /\ NoNormalization

\* StructuralComparator.compare once the two flowcharts are translated
FlowCompare ==
    /\ pc = "ready"
    /\ pc' = "compared"
    /\ unified' = compare_flows(student, teacher)
    /\ UNCHANGED <<teacher, student, diffs, strict, diffs_sw, strict_sw, unified_sw, result, log, filesVars, aiVars, scriptVars>>

\* the same with the two arguments swapped
FlowCompareSwapped ==
    /\ pc = "compared"
    /\ pc' = "swapped"
    /\ unified_sw' = compare_flows(teacher, student)
    /\ UNCHANGED <<teacher, student, diffs, strict, diffs_sw, strict_sw, unified, result, log, filesVars, aiVars, scriptVars>>

NextFlow == FlowCompare \/ FlowCompareSwapped

SpecFlow == InitFlow /\ [][NextFlow]_vars

\* The flow differ on one teacher node and one student node of different
\* types, which the differ overlays: the labels are the empty label, short
\* labels up to a character or wholly apart, two labels whose common
\* characters stand in different runs, and the beginnings of one text at
\* lengths around twenty, where a quarter of the longer label passes four.
Alphabet ==
    <<"a", "b", "c", "d", "e", "f", "g", "h", "i", "j",
      "k", "l", "m", "n", "o", "p", "q", "r", "s", "t">>
Labels ==
    {<<>>, <<"a", "b", "c", "d">>, <<"a", "b", "c", "e">>, <<"w", "x", "y", "z">>,
     <<"w", "x", "y">>, <<"a", "b", "a">>, <<"b", "b", "c", "a">>}
    \cup {SubSeq(Alphabet, 1, n) : n \in {14, 15, 19, 20}}

InitLabels ==
    /\ pc = "ready"
    /\ teacher \in {Dsl(<<FlowNode("operation", l)>>) : l \in Labels}
    /\ student \in {Dsl(<<FlowNode("condition", l)>>) : l \in Labels}
    /\ diffs = <<>> /\ strict = <<>>
    /\ diffs_sw = <<>> /\ strict_sw = <<>>
    /\ unified = <<>> /\ unified_sw = <<>>
    /\ result = <<>> /\ log = <<>>
    /\ NoFiles /\ NoConclusion /\ NoNormalization

SpecLabels == InitLabels /\ [][NextFlow]_vars

-----------------------------------------------------------------------------
(* Utils.compare on the dictionaries of two submissions, function-based on  *)
(* both sides or block-based on both sides, of texts that parse.            *)

\* most functions of a submission
MaxFuncs == 2

FuncNames == {"a", "b", "c"}
UnitBodies == {<<StRet("x")>>, <<StDict("x")>>}
BlockBodies == UnitBodies \cup {<<StIf("x", "Eq", PyInt(0)), StCall("f", "x")>>}

Distinct(names) == \A i, j \in 1..Len(names) : i # j => names[i] # names[j]

\* the dictionaries of functions over a list of names
FuncsOver(names) ==
    {[i \in 1..Len(names) |-> Item(names[i], Unit("defN", names[i], "x", bodies[i]))] :
        bodies \in [1..Len(names) -> UnitBodies]}

FunctionDicts ==
    {<<Item("functions", fs)>> :
        fs \in UNION {FuncsOver(names) : names \in {q \in SeqsUpTo(FuncNames, MaxFuncs) : Distinct(q)}}}
BlockDicts == {<<Item("main", Unit("block", "", "", body))>> : body \in BlockBodies}

UtilsInputs == (FunctionDicts \X FunctionDicts) \cup (BlockDicts \X BlockDicts)

Init ==
    /\ pc = "ready"
    /\ \E in \in UtilsInputs : student = in[1] /\ teacher = in[2]
    /\ diffs = <<>> /\ strict = <<>>
    /\ diffs_sw = <<>> /\ strict_sw = <<>>
    /\ unified = <<>> /\ unified_sw = <<>>
    /\ result = <<>> /\ log = <<>>
    /\ NoFiles /\ NoConclusion /\ NoNormalization

\* a call Utils.compare(student, teacher)
UtilsCompare ==
    /\ pc = "ready"
    /\ pc' = "compared"
    /\ result' = Utils_compare(student, teacher)
    /\ UNCHANGED <<teacher, student, diffs, strict, diffs_sw, strict_sw, unified, unified_sw, log, filesVars, aiVars, scriptVars>>

Next == UtilsCompare

Spec == Init /\ [][Next]_vars

-----------------------------------------------------------------------------
(* A caller that makes one call of Utils.compare after another *)

\* most calls of one run
MaxCalls == 3

CallUnits ==
    {Unit("block", "", "", <<StRet("x")>>),
     Unit("block", "", "", <<StCall("f", "x"), StRet("x")>>), BadUnit}
\* two functions a and b, the text of a being unparseable where the flag says so
CallFuncs(a_is_bad) ==
    <<Item("functions",
           <<Item("a", IF a_is_bad THEN BadUnit ELSE Unit("defN", "a", "x", <<StRet("x")>>)),
             Item("b", Unit("defN", "b", "x", <<StRet("x")>>))>>)>>
CallInputs ==
    ({<<Item("main", u)>> : u \in CallUnits} \X {<<Item("main", u)>> : u \in CallUnits})
    \cup ({CallFuncs(TRUE)} \X {CallFuncs(f) : f \in BOOLEAN})
    \cup ({CallFuncs(FALSE)} \X {CallFuncs(TRUE)})

InitCalls ==
    /\ pc = "ready"
    /\ student = <<>> /\ teacher = <<>>
    /\ diffs = <<>> /\ strict = <<>>
    /\ diffs_sw = <<>> /\ strict_sw = <<>>
    /\ unified = <<>> /\ unified_sw = <<>>
    /\ result = <<>> /\ log = <<>>
    /\ NoFiles /\ NoConclusion /\ NoNormalization

\* the next call Utils.compare(in[1], in[2]), recorded with what it returned
UtilsCall ==
    /\ Len(log) < MaxCalls
    /\ \E in \in CallInputs :
          /\ student' = in[1]
          /\ teacher' = in[2]
          /\ \E r \in {Utils_compare(in[1], in[2])} :
                /\ result' = r
                /\ log' = Append(log, [student |-> in[1], teacher |-> in[2], result |-> r])
    /\ pc' = "compared"
    /\ UNCHANGED <<diffs, strict, diffs_sw, strict_sw, unified, unified_sw, filesVars, aiVars, scriptVars>>

NextCalls == UtilsCall

SpecCalls == InitCalls /\ [][NextCalls]_vars

-----------------------------------------------------------------------------
(* Utils.compare_files and the endpoint that calls it.  A file name is the *)
(* sequence of its pieces, the suffix "_solution.py" and the extension     *)
(* ".py" being pieces of their own; a file text is a unit descriptor whose *)
(* statements are written the way ast.unparse writes them.                 *)

\* name.replace('_solution.py', '.py')
replace_solution(name) ==
    [i \in 1..Len(name) |-> IF name[i] = "_solution.py" THEN ".py" ELSE name[i]]

\* lines 339-342: the first teacher file from position j on whose name
\* without the suffix is base_name, as a list of at most one name
RECURSIVE first_match(_, _, _)
first_match(teacher_files, base_name, j) ==
    IF j > Len(teacher_files) THEN <<>>
    ELSE IF replace_solution(teacher_files[j].key) = base_name
    THEN <<teacher_files[j].key>>
    ELSE first_match(teacher_files, base_name, j + 1)

\* lines 331-342: the mapping built from student file i on
RECURSIVE map_filenames(_, _, _, _)
map_filenames(student_files, teacher_files, i, mapping) ==
    IF i > Len(student_files) THEN mapping
    ELSE LET student_filename == student_files[i].key
             base_name == replace_solution(student_filename)
             found == first_match(teacher_files, base_name, 1)
         IN  map_filenames(student_files, teacher_files, i + 1,
                IF DictHas(teacher_files, base_name)
                THEN DictSet(mapping, student_filename, base_name)
                ELSE IF found # <<>>
                THEN DictSet(mapping, student_filename, found[1])
                ELSE mapping)

\* Utils.detect_code_type (the units of the model hold no nested definition)
detect_code_type(source_code) ==
    IF SyntaxError(source_code) THEN "block_based"
    ELSE IF source_code.form \in {"def1", "defN"} THEN "function_based"
    ELSE "block_based"

\* ast.unparse: a definition written on one line comes back on two
unparse(u) == IF u.form = "def1" THEN [u EXCEPT !.form = "defN"] ELSE u

\* Utils.extract_functions of a text that parses
extract_functions(source_code) ==
    IF source_code.form \in {"def1", "defN"}
    THEN <<Item(source_code.fname, unparse(source_code))>>
    ELSE <<>>

\* Utils.extract_main_block
extract_main_block(source_code) ==
    IF SyntaxError(source_code) THEN source_code ELSE unparse(source_code)

\* lines 363-369 and 382: a comparison added to the result under a file name
add_comparison(res, student_filename, comparison, is_function_based) ==
    [module_specific_diffs |->
        [function_mismatch |->
            res.module_specific_diffs.function_mismatch
            \o (IF is_function_based
                THEN comparison.module_specific_diffs.function_mismatch ELSE <<>>)],
     function_specific_diffs |->
        DictSet(res.function_specific_diffs, student_filename,
                comparison.function_specific_diffs)]

\* lines 345-384: the loop over the mapping from pair i on; an exception
\* ends the call without a result
RECURSIVE compare_pairs(_, _, _, _, _)
compare_pairs(student_files, teacher_files, mapping, i, res) ==
    IF i > Len(mapping) THEN [raised |-> PyNone, result |-> res]
    ELSE LET student_filename == mapping[i].key
             student_code == DictGet(student_files, student_filename, EmptyCode)
             teacher_code == DictGet(teacher_files, mapping[i].val, EmptyCode)
         IN  IF detect_code_type(student_code) = "function_based"
             THEN IF SyntaxError(teacher_code)
                  THEN [raised |-> PyStr(SyntaxErrorText(teacher_code)), result |-> <<>>]
                  ELSE compare_pairs(student_files, teacher_files, mapping, i + 1,
                          add_comparison(res, student_filename,
                              Utils_compare(
                                  <<Item("functions", extract_functions(student_code))>>,
                                  <<Item("functions", extract_functions(teacher_code))>>),
                              TRUE))
             ELSE compare_pairs(student_files, teacher_files, mapping, i + 1,
                     add_comparison(res, student_filename,
                         Utils_compare(
                             <<Item("main", extract_main_block(student_code))>>,
                             <<Item("main", extract_main_block(teacher_code))>>),
                         FALSE))

\* Utils.compare_files
compare_files(student_files, teacher_files) ==
    compare_pairs(student_files, teacher_files,
                  map_filenames(student_files, teacher_files, 1, <<>>), 1,
                  [module_specific_diffs |-> [function_mismatch |-> <<>>],
                   function_specific_diffs |-> <<>>])

\* the body of a response with its status
Response(status, error, details, differences, diff_error, llm) ==
    [status |-> status, error |-> error, details |-> details,
     differences |-> differences, diff_error |-> diff_error,
     conclusion |-> llm.conclusion, llm_model |-> llm.llm_model,
     llm_error |-> llm.llm_error]

\* lines 119-125: what the call of generate_conclusion leaves, for each way
\* the call can end
NoLlm == [conclusion |-> PyNone, llm_model |-> PyNone, llm_error |-> PyNone]
LlmOutcomes ==
    {[conclusion |-> PyStr("conclusion"), llm_model |-> PyStr(m), llm_error |-> PyNone] :
        m \in {"Gemini (gemini-2.5-flash-preview)", "OpenAI (o4-mini)"}}
    \cup {[conclusion |-> PyNone, llm_model |-> PyNone,
           llm_error |-> PyStr("LLM failed: Gemini error | OpenAI error")]}

\* lines 105-135: the comparison, with its exception caught, and the response
compared_response(c, llm) ==
    Response(200, "", "",
             IF c.raised = PyNone THEN c.result ELSE <<>>,
             IF c.raised = PyNone THEN PyNone
             ELSE PyStr("diff failed: " \o c.raised.s),
             llm)

\* diff_endpoint, for the two dictionaries fetched from GitLab
diff_endpoint(student_code_dict, teacher_code_dict, has_params, llm) ==
    IF ~has_params
    THEN Response(400, "student_id, exercise, and year are required.", "",
                  <<>>, PyNone, NoLlm)
    ELSE IF student_code_dict = <<>>
    THEN Response(500, "Failed to fetch code from GitLab",
                  "Could not retrieve student code", <<>>, PyNone, NoLlm)
    ELSE IF teacher_code_dict = <<>>
    THEN Response(500, "Failed to fetch code from GitLab",
                  "Could not retrieve teacher code", <<>>, PyNone, NoLlm)
    ELSE IF detect_code_type(student_code_dict[1].val)
               # detect_code_type(teacher_code_dict[1].val)
    THEN Response(400, "Code type mismatch",
                  "Student code is " \o detect_code_type(student_code_dict[1].val)
                      \o " while teacher code is "
                      \o detect_code_type(teacher_code_dict[1].val),
                  <<>>, PyNone, NoLlm)
    ELSE compared_response(compare_files(student_code_dict, teacher_code_dict), llm)

\* most files of a submission
MaxFiles == 2

\* file names: a.py, a_solution.py, b.py, b_solution.py and three names in
\* which the suffix is not at the end
FileA    == <<"a", ".py">>
FileASol == <<"a", "_solution.py">>
FileB    == <<"b", ".py">>
FileBSol == <<"b", "_solution.py">>
FileA2   == <<"a", ".py", ".py">>
FileASolPy == <<"a", "_solution.py", ".py">>
FileAPySol == <<"a", ".py", "_solution.py">>

\* the dictionaries with the names of a list and the texts of a list
FilesOf(names, texts) == [i \in 1..Len(names) |-> Item(names[i], texts[i])]
NameLists(S) == {q \in SeqsUpTo(S, MaxFiles) : Distinct(q)}

\* one text under every choice of names
PlainText == Unit("block", "", "", <<StCall("f", "x")>>)
NameInputs ==
    {FilesOf(q, [i \in 1..Len(q) |-> PlainText]) :
        q \in NameLists({FileASol, FileA, FileA2})}
    \X {FilesOf(q, [i \in 1..Len(q) |-> PlainText]) :
        q \in NameLists({FileA, FileASol, FileB, FileASolPy, FileAPySol})}

\* every choice of texts under fixed names
StudentTexts == {Unit("def1", "f", "x", <<StRet("x")>>), PlainText, BadUnit}
TeacherTexts == {Unit("defN", "f", "x", <<StRet("x")>>), PlainText, BadUnit}
TextInputs ==
    {FilesOf(SubSeq(<<FileASol, FileBSol, FileA2>>, 1, Len(texts)), texts) :
        texts \in SeqsUpTo(StudentTexts, MaxFiles)}
    \X {FilesOf(SubSeq(<<FileA, FileB, FileASolPy>>, 1, Len(texts)), texts) :
        texts \in SeqsUpTo(TeacherTexts, MaxFiles)}

InitFiles ==
    /\ pc = "ready"
    /\ \E in \in NameInputs \cup TextInputs : student = in[1] /\ teacher = in[2]
    /\ diffs = <<>> /\ strict = <<>>
    /\ diffs_sw = <<>> /\ strict_sw = <<>>
    /\ unified = <<>> /\ unified_sw = <<>>
    /\ result = <<>> /\ log = <<>>
    /\ NoFiles /\ NoConclusion /\ NoNormalization

\* a call Utils.compare_files(student, teacher)
CompareFiles ==
    /\ pc = "ready"
    /\ pc' = "compared"
    /\ filename_mapping' = map_filenames(student, teacher, 1, <<>>)
    /\ \E c \in {compare_files(student, teacher)} :
          result' = c.result /\ raised' = c.raised
    /\ UNCHANGED <<teacher, student, diffs, strict, diffs_sw, strict_sw, unified,
                   unified_sw, log, response, aiVars, scriptVars>>

\* a request to the endpoint for which GitLab returns the two dictionaries
DiffEndpoint ==
    /\ pc = "ready"
    /\ pc' = "responded"
    /\ \E has_params \in BOOLEAN, llm \in LlmOutcomes \cup {NoLlm} :
          response' = diff_endpoint(student, teacher, has_params, llm)
    /\ UNCHANGED <<teacher, student, diffs, strict, diffs_sw, strict_sw, unified,
                   unified_sw, result, log, filename_mapping, raised, aiVars, scriptVars>>

NextFiles == CompareFiles \/ DiffEndpoint

SpecFiles == InitFiles /\ [][NextFiles]_vars

-----------------------------------------------------------------------------
(* AIClient.generate_conclusion.  A call submits the Gemini request to the  *)
(* pool and waits for it for at most GEMINI_TIMEOUT seconds, then does the *)
(* same with the OpenAI request and OPENAI_TIMEOUT.  attempt holds         *)
(*   pc       idle, gemini (waiting for Gemini), openai, returned, raised  *)
(*   n        the number of calls made                                     *)
(*   running  the request waited for has a worker of the pool              *)
(*   waited   the seconds waited for it                                    *)
(*   gemini, openai   how the request to each provider ended               *)
(*   ret      the returned pair (text, label), or the raised message       *)

\* _POOL = ThreadPoolExecutor(max_workers=2)
max_workers == 2
GEMINI_TIMEOUT == 55
OPENAI_TIMEOUT == 60

\* most calls of generate_conclusion in one run
MaxRequests == 2

\* _POOL.submit: the request starts at once if a worker is free, and waits
\* in the queue otherwise
submit(provider, n, gemini, busy) ==
    [pc |-> provider, n |-> n, running |-> busy < max_workers, waited |-> 0,
     gemini |-> gemini, openai |-> "none", ret |-> <<>>]

\* lines 112-113: the except clause of the first attempt leads to the second
after_gemini_failure(how, busy) == submit("openai", attempt.n, how, busy)

\* the end of a call
finished(how, gemini, openai, ret) ==
    [pc |-> how, n |-> attempt.n, running |-> FALSE, waited |-> 0,
     gemini |-> gemini, openai |-> openai, ret |-> ret]

InitAI ==
    /\ pc = "ready"
    /\ student = <<>> /\ teacher = <<>>
    /\ diffs = <<>> /\ strict = <<>>
    /\ diffs_sw = <<>> /\ strict_sw = <<>>
    /\ unified = <<>> /\ unified_sw = <<>>
    /\ result = <<>> /\ log = <<>>
    /\ NoFiles /\ NoConclusion /\ NoNormalization

\* a call of generate_conclusion begins: lines 101-108
GenerateConclusion ==
    /\ attempt.pc \in {"idle", "returned", "raised"}
    /\ attempt.n < MaxRequests
    /\ attempt' = submit("gemini", attempt.n + 1, "none", pool)
    /\ UNCHANGED pool

\* a second passes while fut.result(timeout) waits
Tick ==
    /\ \/ attempt.pc = "gemini" /\ attempt.waited < GEMINI_TIMEOUT
       \/ attempt.pc = "openai" /\ attempt.waited < OPENAI_TIMEOUT
    /\ attempt' = [attempt EXCEPT !.waited = @ + 1]
    /\ UNCHANGED pool

\* a request that was given up ends and its worker takes the queued request
WorkerFreed ==
    /\ pool > 0
    /\ pool' = pool - 1
    /\ attempt' = IF attempt.pc \in {"gemini", "openai"}
                  THEN [attempt EXCEPT !.running = TRUE] ELSE attempt

\* GeminiClient.generate_conclusion returns resp.text: line 109
GeminiReturns ==
    /\ attempt.pc = "gemini" /\ attempt.running
    /\ attempt' = finished("returned", "text", "none",
                           <<"conclusion", "Gemini (gemini-2.5-flash-preview)">>)
    /\ UNCHANGED pool

\* GeminiClient.generate_conclusion raises
GeminiRaises ==
    /\ attempt.pc = "gemini" /\ attempt.running
    /\ attempt' = after_gemini_failure("raised", pool)
    /\ UNCHANGED pool

\* fut.result raises TimeoutError; fut.cancel() takes a queued request out
\* of the queue and leaves a running one with its worker
GeminiTimeout ==
    /\ attempt.pc = "gemini" /\ attempt.waited = GEMINI_TIMEOUT
    /\ pool' = IF attempt.running THEN pool + 1 ELSE pool
    /\ attempt' = after_gemini_failure("timeout", pool')

\* OpenAIClient.generate_conclusion returns the content of the answer
OpenAIReturns ==
    /\ attempt.pc = "openai" /\ attempt.running
    /\ attempt' = finished("returned", attempt.gemini, "text",
                           <<"conclusion", "OpenAI (o4-mini)">>)
    /\ UNCHANGED pool

\* openai_client.py lines 27-28: the request to OpenAI fails and the client
\* returns the message of the exception as its text
OpenAIFails ==
    /\ attempt.pc = "openai" /\ attempt.running
    /\ attempt' = finished("returned", attempt.gemini, "error",
                           <<"Error generating conclusion: error", "OpenAI (o4-mini)">>)
    /\ UNCHANGED pool

\* the second fut.result raises TimeoutError: lines 129-133
OpenAITimeout ==
    /\ attempt.pc = "openai" /\ attempt.waited = OPENAI_TIMEOUT
    /\ pool' = IF attempt.running THEN pool + 1 ELSE pool
    /\ attempt' = finished("raised", attempt.gemini, "timeout",
                           "Gemini error: " \o attempt.gemini
                               \o " | OpenAI error: TimeoutError()")

NextAI ==
    /\ \/ GenerateConclusion \/ Tick \/ WorkerFreed
       \/ GeminiReturns \/ GeminiRaises \/ GeminiTimeout
       \/ OpenAIReturns \/ OpenAIFails \/ OpenAITimeout
    /\ UNCHANGED <<pc, teacher, student, diffs, strict, diffs_sw, strict_sw, unified,
                   unified_sw, result, log, filesVars, scriptVars>>

SpecAI == InitAI /\ [][NextAI]_vars

-----------------------------------------------------------------------------
(* script/AST_parser.py, AST_normalizer.py, AST_comparator.py, main.py     *)
(* A dictionary of ASTParser is a node without line numbers: the key       *)
(* '_type' and then the fields of the class in the order of _fields.       *)

DictNode(type, f) == [type |-> type, f |-> f]

\* ASTParser.convert_ast_to_dict
RECURSIVE convert_ast_to_dict(_)
convert_ast_to_dict(x) ==
    CASE x.k = "node" ->
            FNode(DictNode(x.v.type, [i \in 1..Len(x.v.f) |-> convert_ast_to_dict(x.v.f[i])]))
      [] x.k = "list" -> FList([i \in 1..Len(x.v) |-> convert_ast_to_dict(x.v[i])])
      [] OTHER        -> x

\* ASTParser.parse_code
parse_code(code_str) == convert_ast_to_dict(FNode(parse(code_str)))

\* dir(builtins), as far as the names of the texts go
Builtins == {"print", "len", "abs"}

\* the key that holds the identifier of a node of the three classes of
\* lines 17, 27 and 37 ("": the class has none)
IdentifierKey(type) ==
    CASE type = "Name" -> "id" [] type = "arg" -> "arg"
      [] type = "FunctionDef" -> "name" [] OTHER -> ""

\* new_dict[key] = value
SetField(node, key, value) ==
    [node EXCEPT !.f = [i \in 1..Len(node.f) |->
                            IF Fields(node.type)[i] = key THEN value ELSE node.f[i]]]

\* what normalize_ast_dict returns: (new_dict, name_map, current_counter)
Normalized(tree, name_map, counter) ==
    [tree |-> tree, name_map |-> name_map, counter |-> counter]

\* a numbering that goes on counting for a name it has already seen
rename_always_counting(node, name_map, current_counter) ==
    LET key == IdentifierKey(node.type)
    IN  IF key = "" THEN Normalized(node, name_map, current_counter)
        ELSE LET old_name == GetField(node, key).v.s
             IN  IF old_name \in Builtins
                 THEN Normalized(node, name_map, current_counter)
                 ELSE IF DictHas(name_map, old_name)
                 THEN Normalized(SetField(node, key, FVal(PyStr(DictGet(name_map, old_name, "")))),
                                 name_map, current_counter + 1)
                 ELSE Normalized(SetField(node, key,
                                          FVal(PyStr("a" \o ToString(current_counter)))),
                                 DictSet(name_map, old_name, "a" \o ToString(current_counter)),
                                 current_counter + 1)

\* lines 17-45: the node's own identifier
rename_identifier(node, name_map, current_counter) ==
    LET key == IdentifierKey(node.type)
    IN  IF key = "" THEN Normalized(node, name_map, current_counter)
        ELSE LET old_name == GetField(node, key).v.s
             IN  IF old_name \in Builtins
                 THEN Normalized(node, name_map, current_counter)
                 ELSE IF DictHas(name_map, old_name)
                 THEN Normalized(SetField(node, key, FVal(PyStr(DictGet(name_map, old_name, "")))),
                                 name_map, current_counter)
                 ELSE Normalized(SetField(node, key,
                                          FVal(PyStr("a" \o ToString(current_counter)))),
                                 DictSet(name_map, old_name, "a" \o ToString(current_counter)),
                                 current_counter + 1)

RECURSIVE normalize_ast_dict(_, _, _)
RECURSIVE normalize_fields(_, _, _, _)
RECURSIVE normalize_items(_, _, _, _, _)

\* lines 56-63: the items of a list from position i on; done holds new_list
normalize_items(items, i, done, name_map, current_counter) ==
    IF i > Len(items) THEN Normalized(FList(done), name_map, current_counter)
    ELSE \* bound once: the result for the item
         LET Go(r) == normalize_items(items, i + 1, Append(done, r.tree),
                                      r.name_map, r.counter)
         IN  Go(normalize_ast_dict(items[i], name_map, current_counter))

\* lines 47-63: the keys of new_dict from position i on
normalize_fields(node, i, name_map, current_counter) ==
    IF i > Len(node.f) THEN Normalized(FNode(node), name_map, current_counter)
    ELSE LET value == node.f[i]
             Go(r) == normalize_fields([node EXCEPT !.f[i] = r.tree], i + 1,
                                       r.name_map, r.counter)
         IN  IF value.k = "node"
             THEN Go(normalize_ast_dict(value, name_map, current_counter))
             ELSE IF value.k = "list"
             THEN Go(normalize_items(value.v, 1, <<>>, name_map, current_counter))
             ELSE normalize_fields(node, i + 1, name_map, current_counter)

\* ASTNormalizer.normalize_ast_dict with a name_map given
normalize_ast_dict(ast_dict, name_map, counter_start) ==
    IF ast_dict.k # "node"
    THEN Normalized(ast_dict, name_map, counter_start)
    ELSE LET Go(r) == normalize_fields(r.tree, 1, r.name_map, r.counter)
         IN  Go(rename_identifier(ast_dict.v, name_map, counter_start))

\* a normalizer that leaves every tree as it is
normalize_nothing(ast_dict) == Normalized(ast_dict, <<>>, 1)

\* normalize_ast_dict(ast_dict): name_map is None and becomes {} (lines 7-8),
\* counter_start is 1
normalize_tree(ast_dict) == normalize_ast_dict(ast_dict, <<>>, 1)

\* str(value) in a message; a dictionary or a list is shown by its kind
ValueText(x) == IF x.k = "val" THEN PyStrOf(x.v) ELSE "<" \o x.k \o ">"

\* the path of a key (line 32)
KeyPath(path, node_type, key) ==
    IF path # "" THEN path \o "/" \o node_type \o "." \o key ELSE node_type \o "." \o key

\* ASTComparator.compare_ast_dicts: the messages of the returned list.  The
\* keys are visited in the order of a Python set, which is not specified, so
\* the list is kept as the set of its messages.
RECURSIVE compare_ast_dicts(_, _, _)
compare_ast_dicts(dict_a, dict_b, path) ==
    IF dict_a.k # "node" \/ dict_b.k # "node"
    THEN IF FieldNe(dict_a, dict_b) /\ ~(dict_a.k = "list" /\ dict_b.k = "list" /\ dict_a = dict_b)
         THEN {path \o ": Value mismatch => " \o ValueText(dict_a) \o " != " \o ValueText(dict_b)}
         ELSE {}
    ELSE IF dict_a.v.type # dict_b.v.type
    THEN {path \o ": Node type mismatch => " \o dict_a.v.type \o " vs " \o dict_b.v.type}
    ELSE LET node_type == dict_a.v.type
             keys_a == {Fields(dict_a.v.type)[i] : i \in 1..Len(Fields(dict_a.v.type))}
             keys_b == {Fields(dict_b.v.type)[i] : i \in 1..Len(Fields(dict_b.v.type))}
             OfKey(key) ==
                LET new_path == KeyPath(path, node_type, key)
                    val_a == GetField(dict_a.v, key)
                    val_b == GetField(dict_b.v, key)
                IN  IF key \notin keys_a THEN {new_path \o ": Missing in first dict"}
                    ELSE IF key \notin keys_b THEN {new_path \o ": Missing in second dict"}
                    ELSE IF val_a.k = "list" /\ val_b.k = "list"
                    THEN IF Len(val_a.v) # Len(val_b.v)
                         THEN {new_path \o ": List length mismatch => "
                                  \o ToString(Len(val_a.v)) \o " vs " \o ToString(Len(val_b.v))}
                         ELSE UNION {compare_ast_dicts(val_a.v[i], val_b.v[i],
                                        new_path \o "[" \o ToString(i - 1) \o "]") :
                                     i \in 1..Len(val_a.v)}
                    ELSE compare_ast_dicts(val_a, val_b, new_path)
         IN  UNION {OfKey(key) : key \in keys_a \cup keys_b}

\* The texts main.py is run on: definitions of two statements, a call and a
\* return, over a few names, one of them a built-in and one of the form of a
\* placeholder.
ScriptUnits ==
    {Unit("defN", fname, p, <<StCall(fn, v), StRet(w)>>) :
        fname \in {"f", "g"}, p \in {"x", "y"}, fn \in {"print", "f"},
        v \in {"x", "y", "a2"}, w \in {"x", "a2"}}

InitScript ==
    /\ pc = "ready"
    /\ teacher \in ScriptUnits /\ student \in ScriptUnits
    /\ diffs = <<>> /\ strict = <<>>
    /\ diffs_sw = <<>> /\ strict_sw = <<>>
    /\ unified = <<>> /\ unified_sw = <<>>
    /\ result = <<>> /\ log = <<>>
    /\ NoFiles /\ NoConclusion /\ NoNormalization

\* main.py lines 31-35: both texts are parsed and each tree is normalized
Normalize ==
    /\ pc = "ready"
    /\ pc' = "normalized"
    /\ normalized' = [student |-> normalize_tree(parse_code(student)),
                      teacher |-> normalize_tree(parse_code(teacher)),
                      again   |-> <<>>]
    /\ UNCHANGED <<teacher, student, diffs, strict, diffs_sw, strict_sw, unified,
                   unified_sw, result, log, filesVars, aiVars, ast_differences>>

\* main.py line 37
CompareNormalized ==
    /\ pc = "normalized"
    /\ pc' = "compared"
    /\ ast_differences' = compare_ast_dicts(normalized.student.tree, normalized.teacher.tree, "")
    /\ UNCHANGED <<teacher, student, diffs, strict, diffs_sw, strict_sw, unified,
                   unified_sw, result, log, filesVars, aiVars, normalized>>

\* the normalizer applied to the trees it returned
NormalizeAgain ==
    /\ pc = "compared"
    /\ pc' = "renormalized"
    /\ normalized' = [normalized EXCEPT
                        !.again = [student |-> normalize_tree(normalized.student.tree),
                                   teacher |-> normalize_tree(normalized.teacher.tree)]]
    /\ UNCHANGED <<teacher, student, diffs, strict, diffs_sw, strict_sw, unified,
                   unified_sw, result, log, filesVars, aiVars, ast_differences>>

NextScript == Normalize \/ CompareNormalized \/ NormalizeAgain

SpecScript == InitScript /\ [][NextScript]_vars

-----------------------------------------------------------------------------
(* Properties *)

\* the entries of a list of _DiffEntry with a category, and with a severity too
Entries(ds, category) == {i \in 1..Len(ds) : ds[i].category = category}
EntriesOf(ds, category, severity) ==
    {i \in Entries(ds, category) : ds[i].severity = severity}
\* the returned lines that render an entry of a category
LinesOf(lines, ds, category) ==
    {j \in 1..Len(lines) : \E i \in Entries(ds, category) : to_line(ds[i]) = lines[j]}

\* the node lines of a DSL, and its lines with a flag
NodesOf(dsl) == {i \in 1..Len(dsl) : dsl[i].kind # "wire"}
NodeSeq(dsl) == SelectSeq(dsl, LAMBDA ln : ln.kind # "wire")

\* the positions at which two statement lists of one length differ
DifferAt(t, s) == {i \in 1..Len(t.body) : t.body[i] # s.body[i]}
SameShape(t, s) ==
    /\ ~SyntaxError(t) /\ ~SyntaxError(s)
    /\ t.form = s.form /\ t.fname = s.fname /\ Len(t.body) = Len(s.body)

\* C1: comparing a text against itself gives, for every unit, the single
\* canonical "no structural differences" line as the strict result and a
\* unified flow in which every node is an unflagged copy, with no flow error
C1_SelfComparisonIsClean ==
    (pc = "compared" /\ student = teacher) =>
        \A i \in 1..Len(result.function_specific_diffs) :
            LET r == result.function_specific_diffs[i].val
            IN  /\ r.strict_comparison = <<NoDifferences>>
                /\ r.structuralComparison = PyNone
                /\ \A k \in NodesOf(r.unifiedDSL) :
                      r.unifiedDSL[k].kind = "node" /\ r.unifiedDSL[k].flag = ""

\* two labels of one length that differ in exactly one character
OneCharApart(a, b) ==
    Len(a) = Len(b) /\ Cardinality({i \in 1..Len(a) : a[i] # b[i]}) = 1
\* two labels that share no character
Reworded(a, b) ==
    a # <<>> /\ b # <<>> /\ \A i \in 1..Len(a), j \in 1..Len(b) : a[i] # b[j]

\* the flows pair node by node: as many nodes, of the same type at each place
PairedFlows(t, s) ==
    /\ Len(NodeSeq(t)) = Len(NodeSeq(s))
    /\ \A i \in 1..Len(NodeSeq(t)) : NodeSeq(t)[i].type = NodeSeq(s)[i].type

HasOverlay(dsl, t_label, s_label, flag_) ==
    \E k \in 1..Len(dsl) :
        /\ dsl[k].kind = "overlay"
        /\ dsl[k].label = t_label /\ dsl[k].student = s_label
        /\ dsl[k].flag = flag_

\* C2: a teacher node and the student node at its place, of one type: when
\* the labels are one character apart the unified sequence has an overlay of
\* the two labels tagged diff_edit, when the label is fully reworded an
\* overlay tagged diff_replace
C2_SameTypeLabelChangeIsOverlaid ==
    (pc = "compared" /\ PairedFlows(teacher, student)) =>
        \A i \in 1..Len(NodeSeq(teacher)) :
            LET t_label == NodeSeq(teacher)[i].label
                s_label == NodeSeq(student)[i].label
            IN  /\ OneCharApart(t_label, s_label)
                      => HasOverlay(unified, t_label, s_label, "diff_edit")
                /\ Reworded(t_label, s_label)
                      => HasOverlay(unified, t_label, s_label, "diff_replace")

\* the two units differ in one statement only, a comparison on both sides,
\* and there in the leading operator only
OperatorOnly(t, s) ==
    /\ SameShape(t, s) /\ t.p = s.p
    /\ Cardinality(DifferAt(t, s)) = 1
    /\ \A i \in DifferAt(t, s) :
          /\ t.body[i].k = "if" /\ s.body[i].k = "if"
          /\ Len(t.body[i].ops) = Len(s.body[i].ops)
          /\ t.body[i].ops[1] # s.body[i].ops[1]
          /\ s.body[i] = [t.body[i] EXCEPT !.ops[1] = s.body[i].ops[1]]

\* C3: two units that differ only in the operator of a relational comparison
\* give exactly one Operator entry, of severity warning, rendered as one line
C3_OperatorChangeGivesOneWarning ==
    (pc = "compared" /\ OperatorOnly(teacher, student)) =>
        /\ Cardinality(Entries(diffs, "Operator")) = 1
        /\ Cardinality(EntriesOf(diffs, "Operator", "warning")) = 1
        /\ Cardinality(LinesOf(strict, diffs, "Operator")) = 1

C3_Witness ==
    /\ pc = "compared" /\ OperatorOnly(teacher, student)
    /\ teacher.body = <<StIf("x", "Eq", PyInt(0))>>
    /\ student.body = <<StIf("x", "NotEq", PyInt(0))>>
    /\ Cardinality(LinesOf(strict, diffs, "Operator")) = 1

\* the two units differ in one statement only, a comparison on both sides,
\* and there in the constant only
LiteralOnly(t, s) ==
    /\ SameShape(t, s) /\ t.p = s.p
    /\ Cardinality(DifferAt(t, s)) = 1
    /\ \A i \in DifferAt(t, s) :
          /\ t.body[i].k = "if" /\ s.body[i].k = "if"
          /\ t.body[i].c # s.body[i].c
          /\ s.body[i] = [t.body[i] EXCEPT !.c = s.body[i].c]

\* C4: two units that differ only in a constant inside a comparison give
\* exactly one Literal entry, of severity warning, and no Operator entry
C4_LiteralChangeGivesOneWarning ==
    (pc = "compared" /\ LiteralOnly(teacher, student)) =>
        /\ Cardinality(Entries(diffs, "Literal")) = 1
        /\ Cardinality(EntriesOf(diffs, "Literal", "warning")) = 1
        /\ Cardinality(LinesOf(strict, diffs, "Literal")) = 1
        /\ Entries(diffs, "Operator") = {}

\* a statement with the variable q in place of p
Renamed(st, p, q) == IF st.v = p THEN [st EXCEPT !.v = q] ELSE st

\* the student's unit is the teacher's definition with its parameter renamed
ParameterRenamed(t, s) ==
    /\ SameShape(t, s) /\ t.form \in {"def1", "defN"}
    /\ t.p # s.p
    /\ \A i \in 1..Len(t.body) :
          t.body[i].fn # s.p /\ s.body[i] = Renamed(t.body[i], t.p, s.p)

\* C5: two units that differ only by the renaming of a parameter give only
\* Identifier/info entries; def f(x): return x against def f(y): return y
\* gives exactly one line
C5_RenamingGivesOnlyIdentifierInfo ==
    (pc = "compared" /\ ParameterRenamed(teacher, student)) =>
        /\ \A i \in 1..Len(diffs) :
              diffs[i].category = "Identifier" /\ diffs[i].severity = "info"
        /\ Len(strict) = Cardinality(LinesOf(strict, diffs, "Identifier"))
        /\ (teacher.form = "def1" /\ teacher.body = <<StRet(teacher.p)>>)
              => Len(strict) = 1

\* the student's statements are the teacher's followed by one more
OneMoreStatement(t, s) ==
    /\ ~SyntaxError(t) /\ ~SyntaxError(s)
    /\ t.form = "block" /\ s.form = "block"
    /\ Len(s.body) = Len(t.body) + 1
    /\ SubSeq(s.body, 1, Len(t.body)) = t.body

\* C6: when the student's statement list is the teacher's followed by one
\* more statement C, there is exactly one MissingNode entry; it is an error,
\* it is located at C and shows C, and it says "present only in student code"
C6_TrailingStatementGivesOneMissingNode ==
    (pc = "compared" /\ OneMoreStatement(teacher, student)) =>
        /\ Cardinality(Entries(diffs, "MissingNode")) = 1
        /\ Cardinality(LinesOf(strict, diffs, "MissingNode")) = 1
        /\ \A i \in Entries(diffs, "MissingNode") :
              /\ diffs[i].severity = "error"
              /\ diffs[i].location = "line " \o ToString(Len(student.body))
              /\ diffs[i].message = "Statement present only in student code"
              /\ <<TextLine(0, StmtText(student.body[Len(student.body)]))>>
                    \in {diffs[i].teacher, diffs[i].student}

\* the function names of a submission, and the items of a list as a set
NamesOf(d) == LET fs == DictGet(d, "functions", <<>>) IN {fs[i].key : i \in 1..Len(fs)}
Range(q) == {q[i] : i \in 1..Len(q)}
IsFunctionBased(d) == DictHas(d, "functions") /\ ~DictHas(d, "main")

\* C7: for function-based inputs the results are keyed by exactly the names
\* both sides have, and every name one side alone has is reported once, in a
\* message that names that side
C7_MismatchesAreReportedAndExcluded ==
    (pc = "compared" /\ IsFunctionBased(student) /\ IsFunctionBased(teacher)) =>
        LET both     == NamesOf(student) \cap NamesOf(teacher)
            res      == result.function_specific_diffs
            mismatch == result.module_specific_diffs.function_mismatch
        IN  /\ {res[i].key : i \in 1..Len(res)} = both
            /\ Len(res) = Cardinality(both)
            /\ Range(mismatch) =
                  {"Function '" \o n \o "' is in student code but missing in teacher code." :
                      n \in NamesOf(student) \ NamesOf(teacher)}
                  \cup
                  {"Function '" \o n \o "' is in teacher code but missing in student code." :
                      n \in NamesOf(teacher) \ NamesOf(student)}
            /\ Len(mismatch) = Cardinality(Range(mismatch))

C7_Witness ==
    /\ pc = "compared"
    /\ NamesOf(teacher) = {"a", "b"} /\ NamesOf(student) = {"a", "c"}
    /\ Len(result.function_specific_diffs) = 1
    /\ result.function_specific_diffs[1].key = "a"
    /\ Len(result.module_specific_diffs.function_mismatch) = 2

\* the number of entries of each (category, severity), and of each message
\* of the MissingNode entries
Classes(ds) ==
    [c \in {<<ds[i].category, ds[i].severity>> : i \in 1..Len(ds)} |->
        Cardinality({i \in 1..Len(ds) : <<ds[i].category, ds[i].severity>> = c})]
MissingOnlyIn(ds, side) ==
    Cardinality({i \in Entries(ds, "MissingNode") :
                    ds[i].message = "Statement present only in " \o side \o " code"})

\* C8: the strict differ with its two arguments swapped gives the same number
\* of entries of each (category, severity), and the MissingNode entries with
\* their side flipped
C8_StrictSwapIsSymmetric ==
    (pc = "swapped") =>
        /\ Classes(diffs_sw) = Classes(diffs)
        /\ MissingOnlyIn(diffs_sw, "teacher") = MissingOnlyIn(diffs, "student")
        /\ MissingOnlyIn(diffs_sw, "student") = MissingOnlyIn(diffs, "teacher")

\* the nodes of a unified DSL with a flag, by type and label, with their number
Tagged(dsl, flag_) ==
    LET hits == {k \in 1..Len(dsl) : dsl[k].kind = "node" /\ dsl[k].flag = flag_}
    IN  [n \in {<<dsl[k].type, dsl[k].label>> : k \in hits} |->
            Cardinality({k \in hits : <<dsl[k].type, dsl[k].label>> = n})]
\* the overlay pairs, as (teacher label, student label, flag) or the reverse
Overlays(dsl, swap) ==
    LET hits == {k \in 1..Len(dsl) : dsl[k].kind = "overlay"}
        Pair(k) == IF swap THEN <<dsl[k].student, dsl[k].label, dsl[k].flag>>
                   ELSE <<dsl[k].label, dsl[k].student, dsl[k].flag>>
    IN  [n \in {Pair(k) : k \in hits} |-> Cardinality({k \in hits : Pair(k) = n})]

\* C9: the flow differ with its two arguments swapped turns the teacher-only
\* nodes into student-only nodes and the student-only nodes into teacher-only
\* nodes; the equal nodes and the overlay pairs with their flag stay
C9_FlowSwapIsSymmetric ==
    (pc = "swapped") =>
        /\ Tagged(unified_sw, "diff_student_only") = Tagged(unified, "diff_teacher_only")
        /\ Tagged(unified_sw, "diff_teacher_only") = Tagged(unified, "diff_student_only")
        /\ Tagged(unified_sw, "") = Tagged(unified, "")
        /\ Overlays(unified_sw, TRUE) = Overlays(unified, FALSE)

SyntaxErrorLines ==
    {"(x) Syntax error while parsing code: " \o SyntaxErrorText(u) :
         u \in {u \in {teacher, student} : SyntaxError(u)}}
C13_SyntaxErrorGivesOneLine ==
    (SyntaxError(teacher) \/ SyntaxError(student)) =>
        /\ (pc # "ready") => (Len(strict) = 1 /\ strict[1] \in SyntaxErrorLines)
        /\ (pc = "swapped") => (Len(strict_sw) = 1 /\ strict_sw[1] \in SyntaxErrorLines)

C13_Witness ==
    /\ pc = "swapped"
    /\ SyntaxError(teacher) /\ SyntaxError(student)
    /\ Len(strict) = 1 /\ strict[1] \in SyntaxErrorLines

\* the position at which a rendered line is first emitted
FirstEmission(ds, line) ==
    CHOOSE i \in 1..Len(ds) :
        to_line(ds[i]) = line /\ \A h \in 1..(i - 1) : to_line(ds[h]) # line

\* C20: the lines returned for a non-empty list of entries are pairwise
\* different, are exactly the rendered lines of the emitted entries, and stand
\* in the order in which each was first emitted
C20_LinesAreDistinctInFirstEmissionOrder ==
    (pc # "ready" /\ diffs # <<>>) =>
        /\ \A j, k \in 1..Len(strict) : j # k => strict[j] # strict[k]
        /\ {strict[j] : j \in 1..Len(strict)} = {to_line(diffs[i]) : i \in 1..Len(diffs)}
        /\ \A j, k \in 1..Len(strict) :
               j < k => FirstEmission(diffs, strict[j]) < FirstEmission(diffs, strict[k])

C20_Witness ==
    /\ pc = "compared"
    /\ \E i, h, k \in 1..Len(diffs) :
           /\ i < h /\ h < k
           /\ to_line(diffs[i]) = to_line(diffs[k])
           /\ to_line(diffs[i]) # to_line(diffs[h])
    /\ Len(strict) < Len(diffs)
    /\ Len(strict) > 1

\* the line of the i-th statement of a unit, the unit cut down to that
\* statement, and what an entry says apart from its place
StmtLine(u, i) == CASE u.form = "block" -> i [] u.form = "defN" -> i + 1 [] OTHER -> 1
OnlyStmt(u, i) == Unit(u.form, u.fname, u.p, <<u.body[i]>>)
Says(d) == <<d.category, d.message, d.severity>>
SaidAt(ds, n) ==
    LET at == SelectSeq(ds, LAMBDA d : d.location = "line " \o LineStr(n))
    IN  [k \in 1..Len(at) |-> Says(at[k])]
PairedStatements(t, s) ==
    IF SyntaxError(t) \/ SyntaxError(s) \/ t.form # s.form \/ t.form \notin {"block", "defN"}
    THEN {}
    ELSE 1..Min(Len(t.body), Len(s.body))
TypeOfStmt(u, i) == ParseStmt(u.body[i], StmtLine(u, i)).type

\* C17: a pair of statements of different node types gives exactly one entry,
\* NodeType/error naming the two types, and nothing for what lies below the
\* pair; the statements beside it are compared as they are without it
C17_TypeMismatchGivesOneEntryAndNoDescent ==
    (pc = "compared") =>
        \A i \in PairedStatements(teacher, student) :
            IF TypeOfStmt(student, i) # TypeOfStmt(teacher, i)
            THEN SaidAt(diffs, StmtLine(student, i)) =
                    <<<<"NodeType",
                        TypeOfStmt(student, i) \o " replaced by " \o TypeOfStmt(teacher, i),
                        "error">>>>
            ELSE SaidAt(diffs, StmtLine(student, i)) =
                    SaidAt(compare_diffs(OnlyStmt(student, i), OnlyStmt(teacher, i)),
                           StmtLine(student, 1))

C17_Witness ==
    /\ pc = "compared"
    /\ 2 \in PairedStatements(teacher, student)
    /\ TypeOfStmt(student, 1) # TypeOfStmt(teacher, 1)
    /\ TypeOfStmt(student, 2) = TypeOfStmt(teacher, 2)
    /\ Cardinality(Entries(diffs, "NodeType")) = 2
    /\ \E k \in Entries(diffs, "Operator") : diffs[k].location = "line 2"

\* the paired statements of two blocks whose own list fields (operators,
\* comparators, arguments, targets, keys) have one length on both sides
ListsInsidePairUp(t, s) ==
    \A i \in PairedStatements(t, s) :
        (t.body[i].k = "if" /\ s.body[i].k = "if") => Len(t.body[i].ops) = Len(s.body[i].ops)
Surplus(t, s) ==
    (Min(Len(t.body), Len(s.body)) + 1)..Max(Len(t.body), Len(s.body))

\* C18: the statements of two blocks are compared position by position; the
\* i-th pair gives what the two statements give when compared alone, and every
\* statement past the end of the shorter block gives one MissingNode/error
\* entry at its line naming the side that has it, with no other MissingNode
C18_ListsArePairedPositionally ==
    (/\ pc = "compared" /\ ~SyntaxError(teacher) /\ ~SyntaxError(student)
     /\ teacher.form = "block" /\ student.form = "block"
     /\ ListsInsidePairUp(teacher, student)) =>
        /\ \A i \in PairedStatements(teacher, student) :
               SaidAt(diffs, i) =
                   SaidAt(compare_diffs(OnlyStmt(student, i), OnlyStmt(teacher, i)), 1)
        /\ \A i \in Surplus(teacher, student) :
               SaidAt(diffs, i) =
                   <<<<"MissingNode",
                       "Statement present only in "
                           \o (IF Len(student.body) > Len(teacher.body)
                               THEN "student" ELSE "teacher") \o " code",
                       "error">>>>
        /\ Cardinality(Entries(diffs, "MissingNode")) =
               Cardinality(Surplus(teacher, student))

\* two units with the same tree shape: every node of one is paired with a
\* node of its own type in the other
IsDef(u) == u.form \in {"def1", "defN"}
SameTree(t, s) ==
    /\ ~SyntaxError(t) /\ ~SyntaxError(s)
    /\ IsDef(t) = IsDef(s) /\ Len(t.body) = Len(s.body)
    /\ \A i \in 1..Len(t.body) :
           /\ t.body[i].k = s.body[i].k
           /\ t.body[i].ops = s.body[i].ops
           /\ t.body[i].c.ty = s.body[i].c.ty

\* the identifier fields in which the i-th statements differ: each reference
\* to the variable, and the name of the called function
StmtIdentifiers(a, b) ==
    (IF a.v # b.v THEN (IF a.k = "if" THEN Len(a.ops) ELSE 1) ELSE 0)
    + (IF a.k = "call" /\ a.fn # b.fn THEN 1 ELSE 0)
RECURSIVE BodyIdentifiers(_, _, _)
BodyIdentifiers(t, s, i) ==
    IF i > Len(t.body) THEN 0
    ELSE StmtIdentifiers(t.body[i], s.body[i]) + BodyIdentifiers(t, s, i + 1)
\* ... and, for definitions, the parameter name and the name of the definition
DifferingIdentifiers(t, s) ==
    BodyIdentifiers(t, s, 1)
    + (IF IsDef(t) /\ t.p # s.p THEN 1 ELSE 0)
    + (IF IsDef(t) /\ t.fname # s.fname THEN 1 ELSE 0)

\* C19: for two units of one tree shape, the walk emits one Identifier/info
\* entry for every identifier field (variable reference, called name,
\* parameter name, name of the definition) whose two values differ, and no
\* other Identifier entry
C19_EveryIdentifierChangeIsReported ==
    (pc = "compared" /\ SameTree(teacher, student)) =>
        /\ Cardinality(Entries(diffs, "Identifier")) = DifferingIdentifiers(teacher, student)
        /\ \A k \in Entries(diffs, "Identifier") : diffs[k].severity = "info"

\* the units of a submission by name, as Utils.compare reads them
UnitsOf(d) ==
    IF DictHas(d, "functions") THEN DictGet(d, "functions", <<>>)
    ELSE <<Item("main", DictGet(d, "main", EmptyCode))>>
CommonUnits(s, t) == SelectSeq(UnitsOf(s), LAMBDA it : DictHas(UnitsOf(t), it.key))
NoFlow(call, name) ==
    \/ FlowError(DictGet(UnitsOf(call.student), name, EmptyCode))
    \/ FlowError(DictGet(UnitsOf(call.teacher), name, EmptyCode))

\* C14: in every call, as it is recorded, a unit one of whose texts has no
\* flow gets an empty unified flow and an error string, every other unit gets
\* no error; each unit both sides have, the failing ones and the ones after
\* them, is in the result with its strict lines and its line diff
C14_FlowFailureIsPerUnit ==
    \A n \in {Len(log)} \ {0} :
        LET units == CommonUnits(log[n].student, log[n].teacher)
            res   == log[n].result.function_specific_diffs
        IN  /\ Len(res) = Len(units)
            /\ \A i \in 1..Len(res) :
                   LET name == units[i].key
                       s == units[i].val
                       t == DictGet(UnitsOf(log[n].teacher), name, EmptyCode)
                   IN  /\ res[i].key = name
                       /\ IF NoFlow(log[n], name)
                          THEN /\ res[i].val.unifiedDSL = <<>>
                               /\ res[i].val.structuralComparison # PyNone
                               /\ res[i].val.structuralComparison.ty = "str"
                          ELSE res[i].val.structuralComparison = PyNone
                       /\ res[i].val.strict_comparison = StrictComparator_compare(s, t)
                       /\ res[i].val.unified_diff = generate_unified_diff(s, t, name)

C14_Witness ==
    /\ Len(log) >= 1
    /\ DictHas(log[1].student, "functions")
    /\ log[1].student = CallFuncs(TRUE) /\ log[1].teacher = CallFuncs(FALSE)
    /\ Len(log[1].result.function_specific_diffs) = 2
    /\ log[1].result.function_specific_diffs[1].val.structuralComparison # PyNone
    /\ log[1].result.function_specific_diffs[1].val.unifiedDSL = <<>>
    /\ Len(log[1].result.function_specific_diffs[1].val.strict_comparison) = 1
    /\ log[1].result.function_specific_diffs[2].key = "b"
    /\ log[1].result.function_specific_diffs[2].val.structuralComparison = PyNone
    /\ log[1].result.function_specific_diffs[2].val.unifiedDSL # <<>>

\* a file name with the suffix "_solution.py" at its end replaced by ".py"
WithoutSuffix(name) ==
    IF name # <<>> /\ name[Len(name)] = "_solution.py"
    THEN SubSeq(name, 1, Len(name) - 1) \o <<".py">>
    ELSE name
\* the teacher file the claim pairs a student file with, as a list of at most
\* one name
Equivalent(teacher_files, student_filename) ==
    LET base == WithoutSuffix(student_filename)
        same == {j \in 1..Len(teacher_files) : WithoutSuffix(teacher_files[j].key) = base}
    IN  IF DictHas(teacher_files, base) THEN <<base>>
        ELSE IF same # {}
        THEN <<teacher_files[CHOOSE j \in same : \A h \in same : j <= h].key>>
        ELSE <<>>

\* C15: a student file is paired with the teacher file named like it without
\* the suffix _solution.py if there is one, else with the first teacher file
\* whose name without the suffix is the same, else with none; a file paired
\* with none has no entry in the result and a paired file has one
C15_FilesArePairedBySuffixStripping ==
    (pc = "compared") =>
        \A i \in 1..Len(student) :
            LET name == student[i].key
                pair == Equivalent(teacher, name)
            IN  /\ DictHas(filename_mapping, name) = (pair # <<>>)
                /\ (pair # <<>>) => DictGet(filename_mapping, name, <<>>) = pair[1]
                /\ (raised = PyNone) =>
                       DictHas(result.function_specific_diffs, name) = (pair # <<>>)

\* C11: no exception leaves Utils.compare_files, and every pair of files of
\* the mapping has its entry in the result, whatever the texts of the pairs
C11_FailuresStayInsideOnePairing ==
    (pc = "compared") =>
        /\ raised = PyNone
        /\ \A i \in 1..Len(filename_mapping) :
               DictHas(result.function_specific_diffs, filename_mapping[i].key)

\* the pairs of the mapping one side of which is function-based and the other
\* block-based
MismatchedPairs(student_files, teacher_files) ==
    LET mapping == map_filenames(student_files, teacher_files, 1, <<>>)
    IN  {i \in 1..Len(mapping) :
            detect_code_type(DictGet(student_files, mapping[i].key, EmptyCode))
            # detect_code_type(DictGet(teacher_files, mapping[i].val, EmptyCode))}

\* C12: a pair of files of different classification is never compared: the
\* result of Utils.compare_files has no entry for it, and a request whose
\* files hold such a pair is answered with the code type mismatch error
C12_MismatchedPairsAreRejected ==
    /\ (pc = "compared" /\ raised = PyNone) =>
           \A i \in MismatchedPairs(student, teacher) :
               ~DictHas(result.function_specific_diffs, filename_mapping[i].key)
    /\ (pc = "responded" /\ response.status = 200) =>
           MismatchedPairs(student, teacher) = {}

\* a provider has failed when its request raised, timed out or got an error
ProviderFailed(how) == how \in {"raised", "timeout", "error"}

\* C16: the OpenAI request is made only after the Gemini request raised or
\* timed out, no request is waited for beyond its deadline, a call returns
\* the text of the first provider that succeeded under that provider's label,
\* and a call raises the combined error exactly when both providers failed
C16_FallbackOrderAndOutcome ==
    /\ (attempt.pc = "openai" \/ attempt.openai # "none")
           => attempt.gemini \in {"raised", "timeout"}
    /\ (attempt.pc = "gemini") => attempt.waited <= GEMINI_TIMEOUT
    /\ (attempt.pc = "openai") => attempt.waited <= OPENAI_TIMEOUT
    /\ (attempt.pc = "returned") =>
           \/ attempt.gemini = "text" /\ attempt.openai = "none"
              /\ attempt.ret = <<"conclusion", "Gemini (gemini-2.5-flash-preview)">>
           \/ ProviderFailed(attempt.gemini) /\ attempt.openai = "text"
              /\ attempt.ret = <<"conclusion", "OpenAI (o4-mini)">>
    /\ (attempt.pc \in {"returned", "raised"}) =>
           ((attempt.pc = "raised")
               <=> (ProviderFailed(attempt.gemini) /\ ProviderFailed(attempt.openai)))

\* what a unit's text and tree can contribute to an entry: the stripped line
\* ranges of the text (an operator node has the empty snippet), the classes
\* of the nodes of its tree, its constants and its identifiers
TextSpans(u) ==
    {<<>>} \cup {Strip(SubSeq(source_lines(u), lo, hi)) :
                    lo \in 1..Len(source_lines(u)), hi \in 1..Len(source_lines(u))}
LeadingOps(u) == {u.body[i].ops[1] : i \in {n \in 1..Len(u.body) : u.body[n].k = "if"}}
RECURSIVE TypesUnder(_)
TypesUnder(x) ==
    CASE x.k = "node" -> {x.v.type} \cup UNION {TypesUnder(x.v.f[i]) : i \in 1..Len(x.v.f)}
      [] x.k = "list" -> UNION {TypesUnder(x.v[i]) : i \in 1..Len(x.v)}
      [] OTHER        -> {}
TypesIn(u) == TypesUnder(FNode(parse(u)))
ConstantsIn(u) == {PyRepr(u.body[i].c) : i \in 1..Len(u.body)}
IdentifiersIn(u) ==
    {u.body[i].v : i \in 1..Len(u.body)} \cup {u.body[i].fn : i \in 1..Len(u.body)}
    \cup {u.fname, u.p, "None"}
InBrackets(head, x, y) == head \o " (" \o x \o " -> " \o y \o ")"
OneLine(x) == <<TextLine(0, x)>>

\* an entry whose teacher field and first message value come from unit t and
\* whose student field and second message value come from unit s
ReadsTeacherFirst(d, t, s) ==
    CASE d.category = "NodeType" ->
            /\ d.teacher \in TextSpans(t) /\ d.student \in TextSpans(s)
            /\ \E x \in TypesIn(t), y \in TypesIn(s) : d.message = x \o " replaced by " \o y
      [] d.category = "Operator" ->
            /\ d.teacher \in TextSpans(t) /\ d.student \in TextSpans(s)
            /\ \E x \in LeadingOps(t), y \in LeadingOps(s) :
                  d.message = InBrackets("Condition operator changed", x, y)
      [] d.category = "Literal" ->
            \E x \in ConstantsIn(t), y \in ConstantsIn(s) :
                /\ d.teacher = OneLine(x) /\ d.student = OneLine(y)
                /\ d.message = InBrackets("Literal value changed", x, y)
      [] d.category = "Call" ->
            \E x \in IdentifiersIn(t), y \in IdentifiersIn(s) :
                /\ d.teacher = OneLine(x) /\ d.student = OneLine(y)
                /\ d.message = InBrackets("Function call renamed", x, y)
      [] d.category = "Identifier" ->
            \E x \in IdentifiersIn(t), y \in IdentifiersIn(s) :
                /\ d.teacher = OneLine(x) /\ d.student = OneLine(y)
                /\ d.message = InBrackets("Identifier changed", x, y)
      [] OTHER ->
            d.teacher \in TextSpans(t) /\ d.student \in TextSpans(s)

\* C21: in the walk StrictComparator.compare(student_code, teacher_code)
\* starts, every entry's teacher field comes from the teacher's text and its
\* student field from the student's, and every message that names two values
\* ("X replaced by Y", "X -> Y") names the teacher's first
C21_EntriesReadTeacherFirst ==
    (pc = "compared") =>
        \A k \in 1..Len(diffs) : ReadsTeacherFirst(diffs[k], teacher, student)

\* the paired statements that are comparisons on both sides with different
\* leading operators, in two units the walk descends into alike
LeadingOperatorChanged(t, s) ==
    IF SyntaxError(t) \/ SyntaxError(s) \/ IsDef(t) # IsDef(s) THEN {}
    ELSE {i \in 1..Min(Len(t.body), Len(s.body)) :
             /\ t.body[i].k = "if" /\ s.body[i].k = "if"
             /\ t.body[i].ops[1] # s.body[i].ops[1]}
IsOperatorWarning(d, n) ==
    /\ d.category = "Operator" /\ d.severity = "warning"
    /\ d.location = "line " \o LineStr(n)
IsOperatorNodeError(d, n, x, y) ==
    /\ d.category = "NodeType" /\ d.severity = "error"
    /\ d.location = "line " \o LineStr(n)
    /\ d.message = x \o " replaced by " \o y
InLines(lines, d) == \E j \in 1..Len(lines) : lines[j] = to_line(d)

\* C29: two comparisons with different leading operators give the
\* Operator/warning entry and, from the descent into the operator list that
\* follows, a NodeType/error entry naming the two operator classes; both are
\* rendered, so the change always shows an error line beside the warning
C29_OperatorChangeAlsoGivesNodeTypeError ==
    (pc = "compared") =>
        \A i \in LeadingOperatorChanged(teacher, student) :
            \E k \in 1..Len(diffs), m \in 1..Len(diffs) :
                /\ k < m
                /\ IsOperatorWarning(diffs[k], StmtLine(student, i))
                /\ IsOperatorNodeError(diffs[m], StmtLine(student, i),
                                       student.body[i].ops[1], teacher.body[i].ops[1])
                /\ InLines(strict, diffs[k]) /\ InLines(strict, diffs[m])

C29_Witness ==
    /\ pc = "compared" /\ OperatorOnly(teacher, student)
    /\ LeadingOperatorChanged(teacher, student) = {1}
    /\ Len(diffs) = 2 /\ Len(strict) = 2
    /\ IsOperatorWarning(diffs[1], 1)
    /\ IsOperatorNodeError(diffs[2], 1, student.body[1].ops[1], teacher.body[1].ops[1])

\* two field values are structurally identical: the same kind, for nodes the
\* same class and identical fields position by position, for lists the same
\* length and identical elements, for scalars values that Python holds equal
RECURSIVE Identical(_, _)
Identical(x, y) ==
    IF x.k # y.k THEN FALSE
    ELSE CASE x.k = "node" ->
                 /\ x.v.type = y.v.type
                 /\ \A i \in 1..Len(x.v.f) : Identical(x.v.f[i], y.v.f[i])
           [] x.k = "list" ->
                 /\ Len(x.v) = Len(y.v)
                 /\ \A i \in 1..Len(x.v) : Identical(x.v[i], y.v[i])
           [] OTHER -> PyEq(x.v, y.v)
IdenticalTrees(t, s) == Identical(FNode(parse(s)), FNode(parse(t)))

\* C27: StrictComparator.compare returns the canonical "no structural
\* differences" line only for two structurally identical trees; for trees
\* that differ anywhere it returns at least one diagnostic
C27_NoDifferencesOnlyForIdenticalTrees ==
    (pc = "compared" /\ ~SyntaxError(student) /\ ~SyntaxError(teacher)) =>
        /\ (strict = <<NoDifferences>>) => IdenticalTrees(teacher, student)
        /\ ~IdenticalTrees(teacher, student) => (diffs # <<>> /\ strict # <<NoDifferences>>)

\* the (line, id) pairs of a DSL, their ids, and the opcodes of the two passes
NodePairs(dsl) == split_nodes(dsl).nodes
IdsOf(nodes) == [i \in 1..Len(nodes) |-> nodes[i][2]]
FirstOpcodes(t, s) == first_pass(IdsOf(NodePairs(t)), IdsOf(NodePairs(s)))
RefinedOpcodes(t, s) == refine_replace_spans(FirstOpcodes(t, s), NodePairs(t), NodePairs(s))

\* opcodes that cover n_t teacher nodes and n_s student nodes contiguously,
\* in order, without gap or overlap
Covers(ops, n_t, n_s) ==
    /\ ops = <<>> => (n_t = 0 /\ n_s = 0)
    /\ ops # <<>> => /\ ops[1][2] = 0 /\ ops[1][4] = 0
                     /\ ops[Len(ops)][3] = n_t /\ ops[Len(ops)][5] = n_s
    /\ \A n \in 1..Len(ops) :
          /\ ops[n][2] <= ops[n][3] /\ ops[n][4] <= ops[n][5]
          /\ n > 1 => (ops[n][2] = ops[n - 1][3] /\ ops[n][4] = ops[n - 1][5])
\* the opcodes of ops that lie inside the ranges of r, counted from r's start
Inside(ops, r) ==
    LET inner == SelectSeq(ops, LAMBDA o : /\ r[2] <= o[2] /\ o[3] <= r[3]
                                           /\ r[4] <= o[4] /\ o[5] <= r[5])
    IN  [n \in 1..Len(inner) |->
            Opcode(inner[n][1], inner[n][2] - r[2], inner[n][3] - r[2],
                                inner[n][4] - r[4], inner[n][5] - r[4])]
TypesOfRange(nodes, lo, hi) == [i \in 1..(hi - lo) |-> extract_node_type(nodes[lo + i][1])]
RefinesFirstPass(first, refined, t_nodes, s_nodes) ==
    \A n \in 1..Len(first) :
        IF first[n][1] # "replace"
        THEN first[n] \in Range(refined)
        ELSE Inside(refined, first[n]) =
                get_opcodes(TypesOfRange(t_nodes, first[n][2], first[n][3]),
                            TypesOfRange(s_nodes, first[n][4], first[n][5]))
EqualRangesPairTypes(ops, t_nodes, s_nodes) ==
    \A n \in 1..Len(ops) :
        ops[n][1] = "equal" =>
            TypesOfRange(t_nodes, ops[n][2], ops[n][3]) = TypesOfRange(s_nodes, ops[n][4], ops[n][5])

\* C22: refine_replace_spans keeps every opcode that is not a replace and puts
\* in place of a replace the opcodes of an alignment of the node types of its
\* sub-range, moved back to the sub-range; the refined opcodes still cover
\* both node sequences contiguously and in order, and every refined equal
\* range pairs nodes of one type
C22_RefinementKeepsCoverageAndPairsTypes ==
    (pc = "compared") =>
        /\ RefinesFirstPass(FirstOpcodes(teacher, student), RefinedOpcodes(teacher, student),
                            NodePairs(teacher), NodePairs(student))
        /\ Covers(RefinedOpcodes(teacher, student),
                  Len(NodePairs(teacher)), Len(NodePairs(student)))
        /\ EqualRangesPairTypes(RefinedOpcodes(teacher, student),
                                NodePairs(teacher), NodePairs(student))

\* a replace that does not start at the first node is refined
C22_Witness ==
    /\ pc = "compared"
    /\ \E n \in 1..Len(FirstOpcodes(teacher, student)) :
          /\ FirstOpcodes(teacher, student)[n][1] = "replace"
          /\ FirstOpcodes(teacher, student)[n][2] > 0
    /\ RefinedOpcodes(teacher, student) # FirstOpcodes(teacher, student)
    /\ Len(unified) > 0

\* the number of lines one opcode accounts for in the unified flow, and the
\* number the opcodes before the n-th account for
OutLen(op) ==
    CASE op[1] = "insert"  -> op[5] - op[4]
      [] op[1] = "replace" -> Max(op[3] - op[2], op[5] - op[4])
      [] OTHER             -> op[3] - op[2]
RECURSIVE OutBefore(_, _)
OutBefore(ops, n) == IF n <= 1 THEN 0 ELSE OutBefore(ops, n - 1) + OutLen(ops[n - 1])
Segment(dsl, ops, n) ==
    SubSeq(dsl, OutBefore(ops, n) + 1, OutBefore(ops, n) + OutLen(ops[n]))

\* a line is the given node with a one-side flag; a line overlays two nodes
IsFlagged(ln, node, flag_) ==
    /\ ln.kind = "node" /\ ln.flag = flag_
    /\ ln.name = node.name /\ ln.type = node.type /\ ln.label = BeforeBar(node.label)
IsOverlayOf(ln, t_node, s_node) ==
    /\ ln.kind = "overlay" /\ ln.flag \in {"diff_edit", "diff_replace"}
    /\ ln.name = t_node.name /\ ln.type = t_node.type
    /\ ln.label = StripChars(BeforeBar(t_node.label))
    /\ ln.student = StripChars(BeforeBar(s_node.label))

\* the lines seg are what one refined opcode stands for
EmitsOpcode(seg, op, t_nodes, s_nodes) ==
    LET t_len == op[3] - op[2]
        s_len == op[5] - op[4]
        n == Min(t_len, s_len)
    IN  CASE op[1] = "equal" ->
                \A i \in 1..t_len : seg[i] = t_nodes[op[2] + i][1]
          [] op[1] = "delete" ->
                \A i \in 1..t_len : IsFlagged(seg[i], t_nodes[op[2] + i][1], "diff_teacher_only")
          [] op[1] = "insert" ->
                \A j \in 1..s_len : IsFlagged(seg[j], s_nodes[op[4] + j][1], "diff_student_only")
          [] OTHER ->
                /\ \A k \in 1..n :
                      IsOverlayOf(seg[k], t_nodes[op[2] + k][1], s_nodes[op[4] + k][1])
                /\ \A i \in (n + 1)..t_len :
                      IsFlagged(seg[i], t_nodes[op[2] + i][1], "diff_teacher_only")
                /\ \A j \in (n + 1)..s_len :
                      IsFlagged(seg[n + (t_len - n) + (j - n)], s_nodes[op[4] + j][1],
                                "diff_student_only")

\* the lines that stand for a teacher node, and those that stand for a
\* student node outside the equal ranges, each as the sequence of its labels
TeacherSide(dsl) ==
    LET on == SelectSeq(dsl, LAMBDA ln : \/ ln.kind = "overlay"
                                         \/ ln.kind = "node" /\ ln.flag \in {"", "diff_teacher_only"})
    IN  [k \in 1..Len(on) |-> <<on[k].type, on[k].label>>]
StudentSide(dsl) ==
    LET on == SelectSeq(dsl, LAMBDA ln : \/ ln.kind = "overlay"
                                         \/ ln.kind = "node" /\ ln.flag = "diff_student_only")
    IN  [k \in 1..Len(on) |-> IF on[k].kind = "overlay" THEN on[k].student ELSE on[k].label]
InEqualRange(ops, j) == \E n \in 1..Len(ops) : ops[n][1] = "equal" /\ ops[n][4] < j /\ j <= ops[n][5]
RECURSIVE LabelsOutsideEqual(_, _, _)
LabelsOutsideEqual(ops, s_nodes, j) ==
    IF j > Len(s_nodes) THEN <<>>
    ELSE (IF InEqualRange(ops, j) THEN <<>> ELSE <<s_nodes[j][1].label>>)
         \o LabelsOutsideEqual(ops, s_nodes, j + 1)

MergesOpcodes(dsl, ops, t_nodes, s_nodes, t_other) ==
    /\ Len(dsl) = OutBefore(ops, Len(ops) + 1) + Len(t_other)
    /\ \A n \in 1..Len(ops) : EmitsOpcode(Segment(dsl, ops, n), ops[n], t_nodes, s_nodes)
    /\ SubSeq(dsl, OutBefore(ops, Len(ops) + 1) + 1, Len(dsl)) = t_other
    /\ TeacherSide(dsl) = [i \in 1..Len(t_nodes) |-> <<t_nodes[i][1].type, t_nodes[i][1].label>>]
    /\ StudentSide(dsl) = LabelsOutsideEqual(ops, s_nodes, 1)

\* C23: the unified flow is, opcode by opcode of the refined list: the
\* teacher's nodes as they are for equal, the teacher's nodes flagged
\* teacher-only for delete, the student's flagged student-only for insert, and
\* for replace one overlay per index pair followed by the flagged nodes the
\* longer side has left; every teacher node stands in it once and every
\* student node outside the equal ranges once, each side in its order; the
\* teacher's wiring lines follow unchanged
C23_UnifiedFlowFollowsOpcodes ==
    (pc = "compared") =>
        MergesOpcodes(unified, RefinedOpcodes(teacher, student),
                      NodePairs(teacher), NodePairs(student),
                      SelectSeq(teacher, LAMBDA ln : ln.kind = "wire"))

\* a replace with more teacher nodes than student nodes next to wiring lines
C23_Witness ==
    /\ pc = "compared"
    /\ \E n \in 1..Len(RefinedOpcodes(teacher, student)) :
          LET op == RefinedOpcodes(teacher, student)[n]
          IN  op[1] = "replace" /\ op[3] - op[2] > op[5] - op[4]
    /\ \E k \in 1..Len(unified) : unified[k].kind = "overlay"
    /\ \E k \in 1..Len(unified) : unified[k].kind = "node" /\ unified[k].flag = "diff_teacher_only"
    /\ \E k \in 1..Len(unified) : unified[k].kind = "wire"

\* the index pairs (opcode n, place k) at which a refined opcode pairs a
\* teacher node with a student node
AlignedPairs(ops) ==
    UNION {{<<n, k>> : k \in 1..Min(ops[n][3] - ops[n][2], ops[n][5] - ops[n][4])} :
              n \in {m \in 1..Len(ops) : ops[m][1] \in {"equal", "replace"}}}
PairsDivideByType(dsl, ops, t_nodes, s_nodes) ==
    /\ \A p \in 1..Len(dsl) :
          dsl[p].kind = "overlay" =>
              \E a \in AlignedPairs(ops) :
                  /\ ops[a[1]][1] = "replace" /\ p = OutBefore(ops, a[1]) + a[2]
    /\ \A a \in AlignedPairs(ops) :
          LET t_line == t_nodes[ops[a[1]][2] + a[2]][1]
              s_line == s_nodes[ops[a[1]][4] + a[2]][1]
              line   == dsl[OutBefore(ops, a[1]) + a[2]]
          IN  IF extract_node_type(t_line) = extract_node_type(s_line)
              THEN ops[a[1]][1] = "equal" /\ line = t_line /\ line.flag = ""
              ELSE ops[a[1]][1] = "replace" /\ IsOverlayOf(line, t_line, s_line)

RECURSIVE CommonLength(_, _)
CommonLength(a, b) ==
    IF a = <<>> \/ b = <<>> THEN 0
    ELSE IF Head(a) = Head(b) THEN 1 + CommonLength(Tail(a), Tail(b))
    ELSE Max(CommonLength(Tail(a), b), CommonLength(a, Tail(b)))
EditDistance(a, b) == Len(a) + Len(b) - 2 * CommonLength(a, b)
WithinLimits(d, longer) == d <= 4 \/ 100 * d <= 25 * longer
IsMinor(a, b) ==
    a # <<>> /\ b # <<>> /\ WithinLimits(EditDistance(a, b), Max(Len(a), Len(b)))

\* C24: an overlay is tagged minor (diff_edit) exactly when neither label is
\* empty and the edit distance d between the labels is at most 4 or at most
\* 25% of the longer label's length; otherwise it is tagged major
\* (diff_replace)
C24_OverlayIsMinorWithinLimits ==
    (pc = "compared") =>
        \A k \in 1..Len(unified) :
            unified[k].kind = "overlay" =>
                unified[k].flag = IF IsMinor(unified[k].label, unified[k].student)
                                  THEN "diff_edit" ELSE "diff_replace"

\* C26: a provider call that exceeds its deadline is cancelled and no longer
\* holds a worker of the pool, so no abandoned call is left running and every
\* request that is being waited for, the fallback and the requests of later
\* calls included, runs from the moment it is submitted
C26_TimedOutCallFreesItsWorker ==
    /\ pool = 0
    /\ (attempt.pc \in {"gemini", "openai"}) => attempt.running

\* the identifiers of the Name, arg and FunctionDef nodes of a tree in
\* pre-order, and the tree with these identifiers blanked
RECURSIVE IdentifiersUnder(_)
RECURSIVE IdentifiersOfAll(_, _)
IdentifiersOfAll(xs, i) ==
    IF i > Len(xs) THEN <<>> ELSE IdentifiersUnder(xs[i]) \o IdentifiersOfAll(xs, i + 1)
IdentifiersUnder(x) ==
    CASE x.k = "node" ->
            (IF IdentifierKey(x.v.type) # ""
             THEN <<GetField(x.v, IdentifierKey(x.v.type)).v.s>> ELSE <<>>)
            \o IdentifiersOfAll(x.v.f, 1)
      [] x.k = "list" -> IdentifiersOfAll(x.v, 1)
      [] OTHER        -> <<>>
RECURSIVE Blanked(_)
Blanked(x) ==
    CASE x.k = "node" ->
            FNode(DictNode(x.v.type,
                [i \in 1..Len(x.v.f) |->
                    IF Fields(x.v.type)[i] = IdentifierKey(x.v.type)
                    THEN FVal(PyStr("")) ELSE Blanked(x.v.f[i])]))
      [] x.k = "list" -> FList([i \in 1..Len(x.v) |-> Blanked(x.v[i])])
      [] OTHER        -> x
\* the items of a sequence without the repetitions of an earlier item
RECURSIVE FirstOccurrences(_, _)
FirstOccurrences(q, i) ==
    IF i > Len(q) THEN <<>>
    ELSE (IF \E j \in 1..(i - 1) : q[j] = q[i] THEN <<>> ELSE <<q[i]>>)
         \o FirstOccurrences(q, i + 1)
Renamable(ids) == FirstOccurrences(SelectSeq(ids, LAMBDA n : n \notin Builtins), 1)

\* r is what the normalizer returns for the tree: the names that are not
\* built-in are numbered a1, a2, ... as they are first met, the tree carries
\* the number of each name in place of the name and is otherwise the same
NumbersInOrder(r, tree, ids, firsts) ==
    /\ r.name_map = [i \in 1..Len(firsts) |-> Item(firsts[i], "a" \o ToString(i))]
    /\ r.counter = Len(firsts) + 1
    /\ Blanked(r.tree) = Blanked(tree)
    /\ IdentifiersUnder(r.tree) =
          [i \in 1..Len(ids) |->
              IF ids[i] \in Builtins THEN ids[i] ELSE DictGet(r.name_map, ids[i], "")]
NormalizedFrom(r, tree) ==
    NumbersInOrder(r, tree, IdentifiersUnder(tree), Renamable(IdentifiersUnder(tree)))

\* C25: normalize_ast_dict, walking the tree in pre-order, gives every
\* distinct identifier of a Name, arg or FunctionDef node that is not a
\* built-in the placeholder a<N>, N = 1, 2, 3, ... without gaps in the order
\* of first encounter, the same placeholder for the same identifier and
\* different ones for different identifiers, leaves the built-ins as they
\* are, and starts a new mapping and count for each tree
C25_PlaceholdersAreNumberedInOrder ==
    (pc \in {"normalized", "compared", "renormalized"}) =>
        /\ NormalizedFrom(normalized.student, parse_code(student))
        /\ NormalizedFrom(normalized.teacher, parse_code(teacher))

\* a built-in, a name met twice and a name of the form of a placeholder on
\* one side, other names on the other
C25_Witness ==
    /\ pc = "normalized"
    /\ student = Unit("defN", "f", "x", <<StCall("print", "x"), StRet("a2")>>)
    /\ teacher = Unit("defN", "g", "y", <<StCall("f", "a2"), StRet("x")>>)
    /\ normalized.student.name_map = <<Item("f", "a1"), Item("x", "a2"), Item("a2", "a3")>>
    /\ normalized.teacher.name_map =
          <<Item("g", "a1"), Item("y", "a2"), Item("f", "a3"), Item("a2", "a4"), Item("x", "a5")>>

\* two trees that differ only by a one-to-one renaming of identifiers that
\* are not built-in, in Name, arg and FunctionDef nodes
RenamedOneToOne(a, b) ==
    /\ Len(a) = Len(b)
    /\ \A i, j \in 1..Len(a) : (a[i] = a[j]) <=> (b[i] = b[j])
    /\ \A i \in 1..Len(a) : (a[i] \in Builtins \/ b[i] \in Builtins) => a[i] = b[i]
DifferByRenaming(t_tree, s_tree) ==
    /\ Blanked(t_tree) = Blanked(s_tree)
    /\ RenamedOneToOne(IdentifiersUnder(t_tree), IdentifiersUnder(s_tree))

\* C30: two trees that differ only by such a renaming are normalized, each
\* on its own, to identical trees, for which compare_ast_dicts returns no
\* difference; normalizing a normalized tree returns it unchanged
C30_RenamingIsNormalizedAway ==
    /\ (pc \in {"compared", "renormalized"}
        /\ DifferByRenaming(parse_code(teacher), parse_code(student))) =>
           /\ normalized.student.tree = normalized.teacher.tree
           /\ ast_differences = {}
    /\ (pc = "renormalized") =>
           /\ normalized.again.student.tree = normalized.student.tree
           /\ normalized.again.teacher.tree = normalized.teacher.tree

\* every name renamed, the built-in kept, and the second pass made
C30_Witness ==
    /\ pc = "renormalized"
    /\ student = Unit("defN", "f", "x", <<StCall("print", "x"), StRet("a2")>>)
    /\ teacher = Unit("defN", "g", "y", <<StCall("print", "y"), StRet("x")>>)
    /\ ast_differences = {}
    /\ normalized.again.student.tree = normalized.student.tree

=============================================================================
